---- MODULE Spec2Model ----
(***************************************************************************)
(* The reactive engines of the toolbox: src/lib/signal.js (signal,         *)
(* computed, effect over a context stack) and src/lib/reactive.js (ref,    *)
(* computed, effect over a tracklist and a watchlist).                     *)
(*                                                                         *)
(* JavaScript is single-threaded: the model is an interpreter with an      *)
(* explicit call stack (frames).  Every step of the library code is one    *)
(* action; the client program is a scenario (the statements of a test      *)
(* file) followed by writes and reads made from outside any effect.        *)
(***************************************************************************)
EXTENDS Integers, Sequences, FiniteSets, TLC

\* Numbers written by the client are 0..MaxVal; at most MaxWrites client writes.
MaxVal == 1
MaxWrites == 2

\* The context stack holds at most MaxDepth contexts: a run that would nest
\* deeper is not started.
MaxDepth == 4

\* `undefined` (signal() with no argument) and NaN (the one value with x !== x).
Undef == -1
NaN == -2

VARIABLES
  data,           \* signal.js: per cell, the closure variable `data`
  subscriptions,  \* signal.js: per cell, the Set `subscriptions` in insertion order
  internal,       \* cells made by computed(): their `write` is not handed out
  contexts,       \* every Context object made by effect(), by creation order
  stack,          \* signal.js: the module-level `stack`
  frames,         \* the JavaScript call stack, innermost call last
  exc,            \* an exception is in flight
  scenario,       \* the client program that is running
  pcTop,          \* the next statement of the client program
  writes,         \* client writes made so far
  threw,          \* the last client call ended with an uncaught exception
  failed,         \* some client call so far ended with an uncaught exception
  stashed,        \* contexts whose fn kept the dispose it was passed
  tracklist,      \* reactive.js: the module-level `tracklist`
  watchlist,      \* reactive.js: per ref, the Set of callbacks in `watchlist`
  reactives,      \* reactive.js: the closures made by effect() and computed()
  log,            \* observation: the events of the current client call
  obs             \* observation: per context, what its runs did

vars == <<data, subscriptions, internal, contexts, stack, frames, exc,
          scenario, pcTop, writes, threw, failed, stashed, tracklist, watchlist,
          reactives, log, obs>>

----------------------------------------------------------------------------
(* JavaScript values and containers *)

\* x !== y
StrictNe(x, y) == x # y \/ x = NaN

\* truthiness of a number or undefined
Falsy(x) == x \in {0, NaN, Undef}

\* an add that keeps the Set in the order in which its members were created
SetAddSorted(s, x) ==
  IF \E i \in 1..Len(s) : s[i] = x THEN s
  ELSE SelectSeq(s, LAMBDA y : y < x) \o << x >> \o SelectSeq(s, LAMBDA y : y > x)

\* Set.prototype.add on an insertion-ordered Set
SetAdd(s, x) == IF \E i \in 1..Len(s) : s[i] = x THEN s ELSE Append(s, x)

\* a delete that removes nothing
SetDeleteNothing(s, x) == s

\* a delete that empties the Set
SetDeleteAll(s, x) == << >>

\* Set.prototype.delete
SetDelete(s, x) == SelectSeq(s, LAMBDA y : y # x)

\* Set.prototype.has
SetHas(s, x) == \E i \in 1..Len(s) : s[i] = x

\* Array.prototype.pop leaves the array without its last element (if any)
Pop(s) == IF s = <<>> THEN s ELSE SubSeq(s, 1, Len(s) - 1)

Top(s) == s[Len(s)]

----------------------------------------------------------------------------
(* The client: functions passed to effect() and computed(), as instruction
   lists run by the interpreter, and the programs that create cells and
   effects.  Cells are numbered in creation order. *)

\* The body of each client function.  `acc` is the function's one local.
\*   read c      acc = c()                 write c     setC(acc)
\*   trywrite c  try { setC(acc) } catch {}
\*   lit v       acc = v                   gt0         acc = acc > 0 ? 1 : 0
\*   jf t        if (!acc) goto t          jmp t       goto t
\*   effect f    effect(f)                 stash       keep the dispose argument
\*   throw       throw new Error()         ret r       return r
\* Falling off the end returns undefined.
Fn(f) ==
  CASE f = "readA"    -> << [op |-> "read", cell |-> 1] >>
    [] f = "readB"    -> << [op |-> "read", cell |-> 2] >>
    [] f = "readAB"   -> << [op |-> "read", cell |-> 1], [op |-> "read", cell |-> 2] >>
    [] f = "readAclean" -> << [op |-> "read", cell |-> 1], [op |-> "ret", rv |-> "cleanup"] >>
    \* c() ? b() : a()
    [] f = "cond"     -> << [op |-> "read", cell |-> 3], [op |-> "jf", to |-> 5],
                            [op |-> "read", cell |-> 2], [op |-> "jmp", to |-> 6],
                            [op |-> "read", cell |-> 1] >>
    \* signal.test.js 'nested effects auto dispose'
    [] f = "outer"    -> << [op |-> "read", cell |-> 1], [op |-> "effect", fn |-> "inner"],
                            [op |-> "ret", rv |-> "cleanup"] >>
    [] f = "inner"    -> << [op |-> "read", cell |-> 2], [op |-> "ret", rv |-> "cleanup"] >>
    \* outer and inner read the same cell
    [] f = "outerA"   -> << [op |-> "read", cell |-> 1], [op |-> "effect", fn |-> "readAclean"] >>
    \* derivation functions
    [] f = "gt0A"     -> << [op |-> "read", cell |-> 1], [op |-> "gt0"] >>
    [] f = "idA"      -> << [op |-> "read", cell |-> 1] >>
    [] f = "readCD"   -> << [op |-> "read", cell |-> 2], [op |-> "read", cell |-> 3] >>
    [] f = "readC"    -> << [op |-> "read", cell |-> 2] >>
    \* a() is read, then the function throws
    [] f = "readAthrow" -> << [op |-> "read", cell |-> 1], [op |-> "jf", to |-> 4],
                              [op |-> "throw"], [op |-> "read", cell |-> 2] >>
    \* if (!a()) { b(); setA(1) }
    [] f = "selfWrite" -> << [op |-> "read", cell |-> 1], [op |-> "jf", to |-> 4],
                             [op |-> "jmp", to |-> 7], [op |-> "read", cell |-> 2],
                             [op |-> "lit", v |-> 1], [op |-> "write", cell |-> 1] >>
    [] f = "keeper"   -> << [op |-> "stash"], [op |-> "read", cell |-> 1],
                            [op |-> "ret", rv |-> "cleanup"] >>
    [] f = "badClean" -> << [op |-> "read", cell |-> 1], [op |-> "ret", rv |-> "thrower"] >>
    [] f = "number"   -> << [op |-> "read", cell |-> 1], [op |-> "ret", rv |-> "value"] >>
    \* try { setA(b()) } catch {} ; c()
    [] f = "catcher"  -> << [op |-> "read", cell |-> 2], [op |-> "trywrite", cell |-> 1],
                            [op |-> "read", cell |-> 3] >>
    \* calledWatcher++
    [] f = "count"    -> << [op |-> "lit", v |-> 1] >>
    \* setA(() => 1)
    [] f = "setA1"    -> << [op |-> "lit", v |-> 1], [op |-> "write", cell |-> 1] >>
    \* effect(() => { if (a()) throw new Error(); b() })
    [] f = "outerT"   -> << [op |-> "effect", fn |-> "readAthrow"] >>
    \* three levels: the outermost and the innermost function read a
    [] f = "outer3"   -> << [op |-> "read", cell |-> 1], [op |-> "effect", fn |-> "middle"] >>
    [] f = "middle"   -> << [op |-> "effect", fn |-> "readAclean"] >>
    \* setA(a() ? 0 : 1)
    [] f = "flip"     -> << [op |-> "read", cell |-> 1], [op |-> "jf", to |-> 5],
                            [op |-> "lit", v |-> 0], [op |-> "jmp", to |-> 6],
                            [op |-> "lit", v |-> 1], [op |-> "write", cell |-> 1] >>
    \* a(); if (b()) throw new Error()
    [] f = "readABthrow" -> << [op |-> "read", cell |-> 1], [op |-> "read", cell |-> 2],
                               [op |-> "jf", to |-> 5], [op |-> "throw"] >>
    [] OTHER          -> << >>

\* The client programs: each a list of top-level statements.
\*   signal v     const [c, setC] = signal(v)
\*   effect f     effect(f)
\*   computed f   const c = computed(f)
Program(s) ==
  CASE s = "shared"   -> << [st |-> "signal", v |-> 0], [st |-> "signal", v |-> 0],
                            [st |-> "effect", fn |-> "readA"], [st |-> "effect", fn |-> "readAB"],
                            [st |-> "effect", fn |-> "readAclean"] >>
    [] s = "cond"     -> << [st |-> "signal", v |-> 0], [st |-> "signal", v |-> 0],
                            [st |-> "signal", v |-> 0], [st |-> "effect", fn |-> "cond"] >>
    [] s = "nested"   -> << [st |-> "signal", v |-> 0], [st |-> "signal", v |-> 0],
                            [st |-> "effect", fn |-> "outer"] >>
    [] s = "nestedA"  -> << [st |-> "signal", v |-> 0], [st |-> "effect", fn |-> "outerA"] >>
    [] s = "derived"  -> << [st |-> "signal", v |-> 0], [st |-> "computed", fn |-> "gt0A"],
                            [st |-> "computed", fn |-> "idA"], [st |-> "effect", fn |-> "readCD"],
                            [st |-> "effect", fn |-> "readC"] >>
    [] s = "thrower"  -> << [st |-> "signal", v |-> 0], [st |-> "signal", v |-> 0],
                            [st |-> "effect", fn |-> "readAthrow"], [st |-> "effect", fn |-> "readA"] >>
    [] s = "reentrant" -> << [st |-> "signal", v |-> 0], [st |-> "signal", v |-> 0],
                             [st |-> "effect", fn |-> "selfWrite"] >>
    [] s = "keeper"   -> << [st |-> "signal", v |-> 0], [st |-> "effect", fn |-> "keeper"] >>
    \* an effect that throws is subscribed to a before a computed of a
    [] s = "stale"    -> << [st |-> "signal", v |-> 0], [st |-> "signal", v |-> 0],
                            [st |-> "effect", fn |-> "readAthrow"],
                            [st |-> "computed", fn |-> "idA"] >>
    [] s = "badClean" -> << [st |-> "signal", v |-> 0], [st |-> "signal", v |-> 0],
                            [st |-> "signal", v |-> 0], [st |-> "effect", fn |-> "badClean"], [st |-> "effect", fn |-> "catcher"] >>
    [] s = "number"   -> << [st |-> "signal", v |-> 1], [st |-> "effect", fn |-> "number"],
                            [st |-> "effect", fn |-> "readA"] >>
    \* the inner effect throws while the outer effect is being constructed
    [] s = "nestedThrow" -> << [st |-> "signal", v |-> 1], [st |-> "signal", v |-> 0],
                               [st |-> "effect", fn |-> "outerT"] >>
    [] s = "nested3"  -> << [st |-> "signal", v |-> 0], [st |-> "effect", fn |-> "outer3"] >>
    \* an effect that writes to the cell it has read a value it does not hold
    [] s = "loop"     -> << [st |-> "signal", v |-> 0], [st |-> "effect", fn |-> "flip"] >>
    \* two effects that throw are subscribed to a
    [] s = "throwers" -> << [st |-> "signal", v |-> 0], [st |-> "signal", v |-> 0],
                            [st |-> "effect", fn |-> "readAthrow"],
                            [st |-> "effect", fn |-> "readABthrow"] >>
    \* the programs below import reactive.js
    \*   ref v           const [c, setC] = ref(v)
    \*   rcomputed f     const [c] = computed(f)
    \*   reffect f refs  effect(f, refs)
    \* unnamed/part_000 'reactive values are watchable'
    [] s = "watchable" -> << [st |-> "ref", v |-> 0], [st |-> "rcomputed", fn |-> "idA"],
                             [st |-> "reffect", fn |-> "readA", refs |-> << >>],
                             [st |-> "reffect", fn |-> "count", refs |-> << 1 >>],
                             [st |-> "reffect", fn |-> "readB", refs |-> << >>],
                             [st |-> "reffect", fn |-> "count", refs |-> << 2 >>] >>
    [] s = "rthrower" -> << [st |-> "ref", v |-> 0], [st |-> "ref", v |-> 0],
                            [st |-> "reffect", fn |-> "readAthrow", refs |-> << >>],
                            [st |-> "reffect", fn |-> "readA", refs |-> << >>],
                            [st |-> "reffect", fn |-> "count", refs |-> << 1 >>] >>
    [] s = "rlazy"    -> << [st |-> "ref", v |-> 0], [st |-> "ref", v |-> 0],
                            [st |-> "reffect", fn |-> "readB", refs |-> << 1 >>],
                            [st |-> "reffect", fn |-> "setA1", refs |-> << >>] >>
    [] OTHER          -> << >>

ReactiveScenarios == {"watchable", "rthrower", "rlazy"}
Scenarios == {"shared", "cond", "nested", "nestedA", "derived", "thrower", "stale",
              "reentrant", "keeper", "badClean", "number", "nestedThrow",
              "nested3", "loop", "throwers"}
             \cup ReactiveScenarios

\* the client program imports reactive.js, not signal.js
Reactive == scenario \in ReactiveScenarios

\* What a client passes to a setter: a value, or a function of the old value.
Vals == (0..MaxVal) \cup {NaN}
Args == [kind : {"value"}, v : Vals] \cup [kind : {"updater"}, v : {0}]

\* value instanceof Function ? value(data) : value  (the updater is v => v)
NextValue(arg, old) == IF arg.kind = "updater" THEN old ELSE arg.v

----------------------------------------------------------------------------
(* signal.js *)

\* One call on the JavaScript call stack.
\*   write    the forEach of write(): cell, snap (the copied Set), idx
\*   execute  execute() of context ctx: phase, rv (what fn returned),
\*            from (called by effect() or by write())
\*   dispose  dispose() of context ctx: phase, idx (the forEach position)
\*   fn       the client function of context ctx: idx (program counter), acc,
\*            try (inside a try block that catches)
\* seen, mark and entry are observations: the cells this call of fn has read;
\* for execute, whether the context was disposed (mark 1) while this call of fn
\* ran, for dispose, whether the context had been disposed and not run since
\* (mark 1) when dispose was called; the context stack as execute found it.
NoFrame == [kind |-> "none", ctx |-> 0, cell |-> 0, phase |-> "none", idx |-> 0,
            snap |-> << >>, acc |-> 0, rv |-> "undefined", try |-> FALSE,
            from |-> "none", seen |-> {}, mark |-> 0, entry |-> << >>]
WriteFrame(cell, snap) == [NoFrame EXCEPT !.kind = "write", !.cell = cell, !.snap = snap, !.idx = 1]
\* an execute() that neither disposes nor calls fn
ExecuteFrameNoCall(c, from) ==
  [NoFrame EXCEPT !.kind = "execute", !.ctx = c, !.phase = "push", !.from = from,
                  !.entry = stack]
ExecuteFrame(c, from) ==
  [NoFrame EXCEPT !.kind = "execute", !.ctx = c, !.phase = "dispose", !.from = from,
                  !.entry = stack]
DisposeFrame(c) ==
  [NoFrame EXCEPT !.kind = "dispose", !.ctx = c, !.phase = "dependencies",
                  !.mark = IF c \in DOMAIN obs /\ obs[c].disposed THEN 1 ELSE 0]
FnFrame(c) == [NoFrame EXCEPT !.kind = "fn", !.ctx = c, !.idx = 1]

\* const context = { execute, dispose, dependencies: [], subscriptions: [], disposables: [] }
\* with the closure variables fn and parentContext; own is the cell a computed writes.
NewContext(f, parent, own) ==
  [fn |-> f, parentContext |-> parent, own |-> own,
   dependencies |-> << >>, subscriptions |-> << >>, disposables |-> << >>]

\* What is observed of a context (not program state).
\*   runs     calls of fn               pre    calls of fn begun before any client
\*   wrote    client code has written                 code wrote a cell
\*   ctor     effect() is running / returned / threw
\*   reads    the cells the last finished call of fn read
\*   tracked  the cells read while the context was current, since its last dispose
\*   creator  the context whose fn called effect() (0: the client program)
\*   reg, inv cleanups fn returned, cleanups invoked
\*   disposed dispose() ran since fn was last called
\*   hit      at the last client write: fn had read the written cell
\*   result   the procedures the constructor handed to its caller
\*   aborted  the last call of fn ended with an exception
\*   owed     at the last client write: aborted, and in the written cell's Set
NewObs(creator) ==
  [runs |-> 0, pre |-> 0, wrote |-> FALSE, ctor |-> "running", reads |-> {},
   tracked |-> {}, creator |-> creator, reg |-> 0, inv |-> 0, disposed |-> FALSE,
   hit |-> FALSE, result |-> {}, aborted |-> FALSE, owed |-> FALSE]

\* What the constructors of signal.js hand to their caller: effect(fn) has no
\* return statement (@returns {void}); computed(fn) ends with `return read`.
EffectReturn == {}
ComputedReturn == {"read"}

\* The instructions of the function of context c; computed wraps fn in
\* () => write(fn()).
\* a computed whose effect calls fn and drops the result
BodyNoWrite(c) == Fn((IF Reactive THEN reactives[c] ELSE contexts[c]).fn)

\* reactive.js computed wraps fn in setter(() => fn()).
Wrapped(c) == IF Reactive THEN reactives[c] ELSE contexts[c]
Body(c) ==
  IF Wrapped(c).own = 0 THEN Fn(Wrapped(c).fn)
  ELSE Append(Fn(Wrapped(c).fn), [op |-> "write", cell |-> Wrapped(c).own])

getCurrentContext == IF stack = << >> THEN 0 ELSE Top(stack)

\* An observed event: what happened, in which context's code, on which cell,
\* with which value; snap is the subscriber Set a write found.
Event(ev, c, cell, val) == [ev |-> ev, ctx |-> c, cell |-> cell, val |-> val, snap |-> << >>]
WriteEvent(c, cell, nextValue, snap) ==
  [ev |-> IF StrictNe(nextValue, data[cell]) THEN "write" ELSE "same",
   ctx |-> c, cell |-> cell, val |-> nextValue, snap |-> snap]

Idle == frames = << >> /\ ~exc
Running(kind) == frames # << >> /\ ~exc /\ Top(frames).kind = kind
Caller == Pop(frames)

\* read() that subscribes some context whether or not one is current
ReadSubscriptionsAlways(cell) ==
  [subscriptions EXCEPT ![cell] = SetAdd(@, IF getCurrentContext # 0 THEN getCurrentContext ELSE 1)]

\* a read() that subscribes the outermost running context, not the current one
ReadSubscriptionsOutermost(cell) ==
  IF getCurrentContext # 0
  THEN [subscriptions EXCEPT ![cell] = SetAdd(@, stack[1])]
  ELSE subscriptions

\* a read() that subscribes no context
ReadSubscriptionsNever(cell) == subscriptions

\* read(): the subscription made when a context is current
ReadSubscriptions(cell) ==
  IF getCurrentContext # 0
  THEN [subscriptions EXCEPT ![cell] = SetAdd(@, getCurrentContext)]
  ELSE subscriptions

\* a read() that subscribes the context without the back-link
ReadContextsNothing(cell) == contexts

\* read(): the back-link pushed when a context is current
ReadContexts(cell) ==
  IF getCurrentContext # 0
  THEN [contexts EXCEPT ![getCurrentContext].dependencies = Append(@, cell)]
  ELSE contexts

\* write() without the comparison: every write counts as a change
ChangesAlways(cell, nextValue) == TRUE

\* write(): nextValue !== data
Changes(cell, nextValue) == StrictNe(nextValue, data[cell])

\* a write() that executes only the first subscriber of its snapshot
WriteFramesFirst(caller, cell, nextValue) ==
  IF Changes(cell, nextValue)
  THEN Append(caller, WriteFrame(cell, IF subscriptions[cell] = << >> THEN << >>
                                          ELSE << subscriptions[cell][1] >>))
  ELSE caller

\* a write() that notifies the subscribers whatever the new value is
WriteFramesAlways(caller, cell, nextValue) ==
  Append(caller, WriteFrame(cell, subscriptions[cell]))

\* a write() that does not execute the contexts that are on the stack
WriteFramesGuarded(caller, cell, nextValue) ==
  IF Changes(cell, nextValue)
  THEN Append(caller, WriteFrame(cell, SelectSeq(subscriptions[cell],
                                                 LAMBDA c : ~SetHas(stack, c))))
  ELSE caller

\* write(): the frames after the call made from `caller`
WriteFrames(caller, cell, nextValue) ==
  IF Changes(cell, nextValue)
  THEN Append(caller, WriteFrame(cell, subscriptions[cell]))
  ELSE caller

WriteData(cell, nextValue) ==
  IF Changes(cell, nextValue) THEN [data EXCEPT ![cell] = nextValue] ELSE data

\* client code wrote a cell: every context that exists has seen a write
ObsWrote == [c \in DOMAIN obs |-> [obs[c] EXCEPT !.wrote = TRUE]]

ReplaceTop(fr) == Append(Caller, fr)

cells == <<data, subscriptions, internal>>
client == <<scenario, pcTop, writes>>
reactive == <<tracklist, watchlist, reactives>>
outcome == <<threw, failed>>

Init ==
  /\ data = << >> /\ subscriptions = << >> /\ internal = {}
  /\ contexts = << >> /\ stack = << >> /\ frames = << >> /\ exc = FALSE
  /\ scenario \in Scenarios /\ pcTop = 1 /\ writes = 0 /\ threw = FALSE
  /\ failed = FALSE /\ stashed = {} /\ log = << >> /\ obs = << >>
  /\ tracklist = << >> /\ watchlist = << >> /\ reactives = << >>

Statement == Program(scenario)[pcTop]
AtStatement(st) == Idle /\ pcTop <= Len(Program(scenario)) /\ Statement.st = st

\* const [read, write] = signal(value)
Signal ==
  /\ AtStatement("signal")
  /\ data' = Append(data, Statement.v)
  /\ subscriptions' = Append(subscriptions, << >>)
  /\ pcTop' = pcTop + 1 /\ log' = << >> /\ threw' = FALSE
  /\ UNCHANGED <<reactive, internal, contexts, stack, frames, exc, scenario, writes, failed,
                 stashed, obs>>

\* effect(fn), called by the client program
Effect ==
  /\ AtStatement("effect")
  /\ contexts' = Append(contexts, NewContext(Statement.fn, getCurrentContext, 0))
  /\ obs' = Append(obs, NewObs(0))
  /\ frames' = << ExecuteFrame(Len(contexts) + 1, "effect") >>
  /\ pcTop' = pcTop + 1 /\ log' = << >> /\ threw' = FALSE
  /\ UNCHANGED <<reactive, cells, stack, exc, scenario, writes, failed, stashed>>

\* computed(fn), called by the client program
Computed ==
  /\ AtStatement("computed")
  /\ data' = Append(data, Undef)
  /\ subscriptions' = Append(subscriptions, << >>)
  /\ internal' = internal \cup {Len(data) + 1}
  /\ contexts' = Append(contexts, NewContext(Statement.fn, getCurrentContext, Len(data) + 1))
  /\ obs' = Append(obs, NewObs(0))
  /\ frames' = << ExecuteFrame(Len(contexts) + 1, "effect") >>
  /\ pcTop' = pcTop + 1 /\ log' = << >> /\ threw' = FALSE
  /\ UNCHANGED <<reactive, stack, exc, scenario, writes, failed, stashed>>

\* read(), called from outside any function of an effect
ClientRead(cell) ==
  /\ Idle /\ ~Reactive
  /\ subscriptions' = ReadSubscriptions(cell)
  /\ contexts' = ReadContexts(cell)
  /\ log' = << Event("read", 0, cell, data[cell]) >> /\ threw' = FALSE
  /\ UNCHANGED <<reactive, data, internal, stack, frames, exc, client, failed, stashed, obs>>

\* write(value), called from outside any function of an effect
ClientWrite(cell, arg) ==
  /\ Idle /\ ~Reactive /\ writes < MaxWrites /\ cell \notin internal
  /\ data' = WriteData(cell, NextValue(arg, data[cell]))
  /\ frames' = WriteFrames(<< >>, cell, NextValue(arg, data[cell]))
  /\ writes' = writes + 1
  /\ obs' = [c \in DOMAIN obs |->
               [obs[c] EXCEPT !.wrote = TRUE,
                              !.hit = cell \in obs[c].reads /\ ~obs[c].disposed,
                              !.owed = obs[c].aborted /\ SetHas(subscriptions[cell], c)]]
  /\ log' = << WriteEvent(0, cell, NextValue(arg, data[cell]), subscriptions[cell]) >> /\ threw' = FALSE
  /\ UNCHANGED <<reactive, subscriptions, internal, contexts, stack, exc, scenario, pcTop, failed,
                 stashed>>

\* The dispose procedures the client holds: those a function was passed and
\* kept, and those a constructor called by the client returned.
Disposers ==
  stashed \cup {c \in DOMAIN obs : obs[c].creator = 0 /\ "dispose" \in obs[c].result}

\* dispose(), called by the client
ClientDispose(c) ==
  /\ Idle /\ c \in Disposers
  /\ frames' = << DisposeFrame(c) >>
  /\ log' = << >> /\ threw' = FALSE
  /\ UNCHANGED <<reactive, cells, contexts, stack, exc, client, failed, stashed, obs>>

\* a write() that goes through its copy of the subscribers from the last
WriteFanoutReversed ==
  /\ Running("write")
  /\ frames' = IF Top(frames).idx <= Len(Top(frames).snap)
               THEN Append(ReplaceTop([Top(frames) EXCEPT !.idx = @ + 1]),
                           ExecuteFrame(Top(frames).snap[Len(Top(frames).snap) + 1
                                                           - Top(frames).idx], "write"))
               ELSE Caller
  /\ UNCHANGED <<reactive, cells, contexts, stack, exc, client, outcome, stashed, log, obs>>

\* a write() that skips the subscribers already run during the client call
WriteFanoutOnce ==
  /\ Running("write")
  /\ frames' = IF Top(frames).idx <= Len(Top(frames).snap)
               THEN IF \E i \in DOMAIN log : /\ log[i].ev = "run"
                                               /\ log[i].ctx = Top(frames).snap[Top(frames).idx]
                    THEN ReplaceTop([Top(frames) EXCEPT !.idx = @ + 1])
                    ELSE Append(ReplaceTop([Top(frames) EXCEPT !.idx = @ + 1]),
                                ExecuteFrame(Top(frames).snap[Top(frames).idx], "write"))
               ELSE Caller
  /\ UNCHANGED <<reactive, cells, contexts, stack, exc, client, outcome, stashed, log, obs>>

\* write(): [...subscriptions].forEach(({ execute }) => execute())
WriteFanout ==
  /\ Running("write")
  /\ frames' = IF Top(frames).idx <= Len(Top(frames).snap)
               THEN Append(ReplaceTop([Top(frames) EXCEPT !.idx = @ + 1]),
                           ExecuteFrame(Top(frames).snap[Top(frames).idx], "write"))
               ELSE Caller
  /\ UNCHANGED <<reactive, cells, contexts, stack, exc, client, outcome, stashed, log, obs>>

\* an execute() that does not call dispose() first
ExecuteNoDispose ==
  /\ Running("execute") /\ Top(frames).phase = "dispose"
  /\ frames' = ReplaceTop([Top(frames) EXCEPT !.phase = "track"])
  /\ UNCHANGED <<reactive, cells, contexts, stack, exc, client, outcome, stashed, log, obs>>

\* execute(): try { dispose();
ExecuteDispose ==
  /\ Running("execute") /\ Top(frames).phase = "dispose"
  /\ frames' = Append(ReplaceTop([Top(frames) EXCEPT !.phase = "track"]),
                      DisposeFrame(Top(frames).ctx))
  /\ UNCHANGED <<reactive, cells, contexts, stack, exc, client, outcome, stashed, log, obs>>

\* execute(): parentContext.subscriptions.push(context); startTracking(context); fn(dispose)
ExecuteTrack ==
  /\ Running("execute") /\ Top(frames).phase = "track"
  /\ Len(stack) < MaxDepth
  /\ \E c \in {Top(frames).ctx} :
       /\ contexts' = IF contexts[c].parentContext # 0
                      THEN [contexts EXCEPT ![contexts[c].parentContext].subscriptions =
                                              Append(@, c)]
                      ELSE contexts
       /\ stack' = Append(stack, c)
       /\ frames' = Append(ReplaceTop([Top(frames) EXCEPT !.phase = "push"]), FnFrame(c))
       /\ log' = Append(log, Event("run", c, 0, Len(frames)))
       /\ obs' = [obs EXCEPT ![c].runs = @ + 1,
                             ![c].pre = IF obs[c].wrote THEN @ ELSE @ + 1,
                             ![c].disposed = FALSE, ![c].aborted = FALSE]
  /\ UNCHANGED <<reactive, cells, exc, client, outcome, stashed>>

\* an execute() that does not call stopTracking() when fn has returned
ExecutePushNoPop ==
  /\ Running("execute") /\ Top(frames).phase = "push"
  /\ \E f \in {Top(frames)} :
       /\ contexts' = [contexts EXCEPT ![f.ctx].disposables =
                         Append(@, IF f.rv = "undefined" THEN "noop" ELSE f.rv)]
       /\ obs' = [obs EXCEPT ![f.ctx].ctor = IF f.from = "effect" THEN "returned" ELSE @,
                             ![f.ctx].reg = IF f.rv \in {"cleanup", "thrower"} THEN @ + 1 ELSE @,
                             ![f.ctx].reads = f.seen,
                             ![f.ctx].result = IF f.from # "effect" THEN @
                                               ELSE IF contexts[f.ctx].own # 0
                                                    THEN ComputedReturn ELSE EffectReturn]
       /\ log' = Append(log, Event("executed", f.ctx, 0, f.mark))
  /\ frames' = Caller
  /\ UNCHANGED <<reactive, cells, stack, exc, client, outcome, stashed>>

\* execute(): context.disposables.push(<returned> ?? (() => { })) } finally { stopTracking() }
ExecutePush ==
  /\ Running("execute") /\ Top(frames).phase = "push"
  /\ \E f \in {Top(frames)} :
       /\ contexts' = [contexts EXCEPT ![f.ctx].disposables =
                         Append(@, IF f.rv = "undefined" THEN "noop" ELSE f.rv)]
       /\ obs' = [obs EXCEPT ![f.ctx].ctor = IF f.from = "effect" THEN "returned" ELSE @,
                             ![f.ctx].reg = IF f.rv \in {"cleanup", "thrower"} THEN @ + 1 ELSE @,
                             ![f.ctx].reads = f.seen,
                             ![f.ctx].result = IF f.from # "effect" THEN @
                                               ELSE IF contexts[f.ctx].own # 0
                                                    THEN ComputedReturn ELSE EffectReturn]
       /\ log' = Append(log, Event("executed", f.ctx, 0, f.mark))
  /\ stack' = Pop(stack)
  /\ frames' = Caller
  /\ UNCHANGED <<reactive, cells, exc, client, outcome, stashed>>

\* a dispose() that goes from the dependencies straight to the cleanups
DisposeDependenciesSkip ==
  /\ Running("dispose") /\ Top(frames).phase = "dependencies"
  /\ \E c \in {Top(frames).ctx} :
       /\ subscriptions' =
            [k \in DOMAIN subscriptions |->
               IF \E i \in 1..Len(contexts[c].dependencies) : contexts[c].dependencies[i] = k
               THEN SetDelete(subscriptions[k], c) ELSE subscriptions[k]]
       /\ contexts' = [contexts EXCEPT ![c].dependencies = << >>]
       /\ obs' = [obs EXCEPT ![c].tracked = {}, ![c].disposed = TRUE]
       /\ log' = Append(log, Event("dispose", c, 0, Top(frames).mark))
  /\ frames' = ReplaceTop([Top(frames) EXCEPT !.phase = "disposables", !.idx = 1])
  /\ UNCHANGED <<reactive, data, internal, stack, exc, client, outcome, stashed>>

\* dispose(): context.dependencies.forEach((dep) => dep.delete(context)); dependencies = []
DisposeDependencies ==
  /\ Running("dispose") /\ Top(frames).phase = "dependencies"
  /\ \E c \in {Top(frames).ctx} :
       /\ subscriptions' =
            [k \in DOMAIN subscriptions |->
               IF \E i \in 1..Len(contexts[c].dependencies) : contexts[c].dependencies[i] = k
               THEN SetDelete(subscriptions[k], c) ELSE subscriptions[k]]
       /\ contexts' = [contexts EXCEPT ![c].dependencies = << >>]
       /\ obs' = [obs EXCEPT ![c].tracked = {}, ![c].disposed = TRUE]
       /\ log' = Append(log, Event("dispose", c, 0, Top(frames).mark))
  /\ frames' = [i \in DOMAIN frames |->
                  IF i = Len(frames)
                  THEN [frames[i] EXCEPT !.phase = "subscriptions", !.idx = 1]
                  ELSE IF frames[i].kind = "execute" /\ frames[i].phase = "push"
                          /\ frames[i].ctx = Top(frames).ctx
                       THEN [frames[i] EXCEPT !.mark = 1]
                       ELSE frames[i]]
  /\ UNCHANGED <<reactive, data, internal, stack, exc, client, outcome, stashed>>

\* dispose(): context.subscriptions.forEach(({ dispose }) => dispose()); subscriptions = []
DisposeSubscriptions ==
  /\ Running("dispose") /\ Top(frames).phase = "subscriptions"
  /\ \E f \in {Top(frames)} :
       IF f.idx <= Len(contexts[f.ctx].subscriptions)
       THEN /\ frames' = Append(ReplaceTop([f EXCEPT !.idx = @ + 1]),
                                DisposeFrame(contexts[f.ctx].subscriptions[f.idx]))
            /\ UNCHANGED contexts
       ELSE /\ frames' = ReplaceTop([f EXCEPT !.phase = "disposables", !.idx = 1])
            /\ contexts' = [contexts EXCEPT ![f.ctx].subscriptions = << >>]
  /\ UNCHANGED <<reactive, cells, stack, exc, client, outcome, stashed, log, obs>>

\* a dispose() that invokes the cleanups and keeps them in the list
DisposeDisposablesKeep ==
  /\ Running("dispose") /\ Top(frames).phase = "disposables"
  /\ \E f \in {Top(frames)} :
       IF f.idx <= Len(contexts[f.ctx].disposables)
       THEN \E d \in {contexts[f.ctx].disposables[f.idx]} :
              /\ frames' = ReplaceTop([f EXCEPT !.idx = @ + 1])
              /\ exc' = (d \in {"thrower", "value"})
              /\ log' = IF d = "noop" THEN log ELSE Append(log, Event(d, f.ctx, 0, 0))
              /\ obs' = [obs EXCEPT ![f.ctx].inv =
                           IF d \in {"cleanup", "thrower"} THEN @ + 1 ELSE @]
              /\ UNCHANGED contexts
       ELSE /\ frames' = Caller
            /\ log' = Append(log, Event("disposed", f.ctx, 0, f.mark))
            /\ UNCHANGED <<exc, obs, contexts>>
  /\ UNCHANGED <<reactive, cells, stack, client, outcome, stashed>>

\* dispose(): context.disposables.forEach((fn) => fn()); disposables = []
\* Calling a returned value that is no function is a TypeError.
DisposeDisposables ==
  /\ Running("dispose") /\ Top(frames).phase = "disposables"
  /\ \E f \in {Top(frames)} :
       IF f.idx <= Len(contexts[f.ctx].disposables)
       THEN \E d \in {contexts[f.ctx].disposables[f.idx]} :
              /\ frames' = ReplaceTop([f EXCEPT !.idx = @ + 1])
              /\ exc' = (d \in {"thrower", "value"})
              /\ log' = IF d = "noop" THEN log ELSE Append(log, Event(d, f.ctx, 0, 0))
              /\ obs' = [obs EXCEPT ![f.ctx].inv =
                           IF d \in {"cleanup", "thrower"} THEN @ + 1 ELSE @]
              /\ UNCHANGED contexts
       ELSE /\ frames' = Caller
            /\ contexts' = [contexts EXCEPT ![f.ctx].disposables = << >>]
            /\ log' = Append(log, Event("disposed", f.ctx, 0, f.mark))
            /\ UNCHANGED <<exc, obs>>
  /\ UNCHANGED <<reactive, cells, stack, client, outcome, stashed>>

----------------------------------------------------------------------------
(* The client functions, run by the interpreter *)

Instr == Body(Top(frames).ctx)[Top(frames).idx]
AtInstr(ops) ==
  /\ Running("fn")
  /\ Top(frames).idx <= Len(Body(Top(frames).ctx))
  /\ Instr.op \in ops

Advance(f) == [f EXCEPT !.idx = @ + 1, !.try = FALSE]

\* the instruction is the client's, not the write computed() wraps around fn
ClientCode(f) == f.idx <= Len(Fn(Wrapped(f.ctx).fn))

\* acc = c()  (read() of signal.js)
FnRead ==
  /\ AtInstr({"read"}) /\ ~Reactive
  /\ \E f \in {Top(frames)}, cell \in {Instr.cell}, current \in {getCurrentContext} :
       /\ subscriptions' = ReadSubscriptions(cell)
       /\ contexts' = ReadContexts(cell)
       /\ frames' = ReplaceTop([Advance(f) EXCEPT !.acc = data[cell],
                                                  !.seen = @ \cup {cell}])
       /\ log' = Append(log, Event("read", f.ctx, cell, data[cell]))
       /\ obs' = IF current = 0 THEN obs
                 ELSE [obs EXCEPT ![current].tracked = @ \cup {cell}]
  /\ UNCHANGED <<reactive, data, internal, stack, exc, client, outcome, stashed>>

\* setC(acc), possibly inside try { } catch { }  (write() of signal.js)
FnWrite ==
  /\ AtInstr({"write", "trywrite"}) /\ ~Reactive
  /\ \E f \in {Top(frames)}, cell \in {Instr.cell} :
       /\ data' = WriteData(cell, f.acc)
       /\ frames' = WriteFrames(
                      ReplaceTop([Advance(f) EXCEPT !.try = (Instr.op = "trywrite")]),
                      cell, f.acc)
       /\ log' = Append(log, WriteEvent(f.ctx, cell, f.acc, subscriptions[cell]))
       /\ obs' = IF ClientCode(f) THEN ObsWrote ELSE obs
  /\ UNCHANGED <<reactive, subscriptions, internal, contexts, stack, exc, client, outcome, stashed>>

\* effect(f), called inside a function  (effect() of signal.js)
FnEffect ==
  /\ AtInstr({"effect"})
  /\ contexts' = Append(contexts, NewContext(Instr.fn, getCurrentContext, 0))
  /\ obs' = Append(obs, NewObs(Top(frames).ctx))
  /\ frames' = Append(ReplaceTop(Advance(Top(frames))),
                      ExecuteFrame(Len(contexts) + 1, "effect"))
  /\ UNCHANGED <<reactive, cells, stack, exc, client, outcome, stashed, log>>

\* the instructions that touch only the function's own locals
FnLocal ==
  /\ AtInstr({"lit", "gt0", "jf", "jmp"})
  /\ \E f \in {Top(frames)} :
       frames' = ReplaceTop(
         CASE Instr.op = "lit" -> [Advance(f) EXCEPT !.acc = Instr.v]
           [] Instr.op = "gt0" -> [Advance(f) EXCEPT !.acc = IF f.acc > 0 THEN 1 ELSE 0]
           [] Instr.op = "jf"  -> IF Falsy(f.acc) THEN [Advance(f) EXCEPT !.idx = Instr.to]
                                  ELSE Advance(f)
           [] Instr.op = "jmp" -> [Advance(f) EXCEPT !.idx = Instr.to])
  /\ UNCHANGED <<reactive, cells, contexts, stack, exc, client, outcome, stashed, log, obs>>

\* the function keeps the dispose it was passed: fn(dispose)
FnStash ==
  /\ AtInstr({"stash"})
  /\ stashed' = stashed \cup {Top(frames).ctx}
  /\ frames' = ReplaceTop(Advance(Top(frames)))
  /\ UNCHANGED <<reactive, cells, contexts, stack, exc, client, outcome, log, obs>>

FnThrow ==
  /\ AtInstr({"throw"})
  /\ exc' = TRUE
  /\ frames' = ReplaceTop([Top(frames) EXCEPT !.try = FALSE])
  /\ log' = Append(log, Event("throw", Top(frames).ctx, 0, 0))
  /\ UNCHANGED <<reactive, cells, contexts, stack, client, outcome, stashed, obs>>

\* what the function call in frame f returns when it is at a return or at its end
Ended(f) == f.idx > Len(Body(f.ctx))
Returned(f) == IF Ended(f) THEN "undefined" ELSE Body(f.ctx)[f.idx].rv

\* return r, or the end of the function: back in execute() with the value
FnReturn ==
  /\ Running("fn")
  /\ IF Ended(Top(frames)) THEN TRUE ELSE Instr.op = "ret"
  /\ frames' = Append(Pop(Caller), [Top(Caller) EXCEPT !.rv = Returned(Top(frames)),
                                                       !.seen = Top(frames).seen])
  /\ log' = Append(log, Event("ran", Top(frames).ctx, 0, 0))
  /\ UNCHANGED <<reactive, cells, contexts, stack, exc, client, outcome, stashed, obs>>

\* an execute() without the finally block: the exception leaves the stack as it is
UnwindNoPop ==
  /\ exc /\ frames # << >>
  /\ ~(Top(frames).kind = "fn" /\ Top(frames).try)
  /\ \E f \in {Top(frames)} :
       /\ obs' = IF f.kind \in {"execute", "update"}
                 THEN [obs EXCEPT ![f.ctx].ctor = IF f.from = "effect" THEN "threw" ELSE @,
                                  ![f.ctx].reads = IF f.phase \in {"push", "stop"}
                                                   THEN f.seen ELSE @,
                                  ![f.ctx].aborted = IF f.phase \in {"push", "stop"}
                                                     THEN TRUE ELSE @]
                 ELSE obs
       /\ frames' = IF f.kind = "fn"
                    THEN Append(Pop(Caller), [Top(Caller) EXCEPT !.seen = f.seen])
                    ELSE Caller
  /\ exc' = (Caller # << >>)
  /\ threw' = (Caller = << >>)
  /\ failed' = (failed \/ Caller = << >>)
  /\ UNCHANGED <<reactive, cells, contexts, stack, client, stashed, log>>

\* a write() whose forEach catches what a subscriber throws and goes on
UnwindSwallow ==
  /\ exc /\ frames # << >>
  /\ ~(Top(frames).kind = "fn" /\ Top(frames).try)
  /\ \E f \in {Top(frames)} :
       /\ stack' = IF f.kind = "execute" THEN Pop(stack) ELSE stack
       /\ obs' = IF f.kind \in {"execute", "update"}
                 THEN [obs EXCEPT ![f.ctx].ctor = IF f.from = "effect" THEN "threw" ELSE @,
                                  ![f.ctx].reads = IF f.phase \in {"push", "stop"}
                                                   THEN f.seen ELSE @,
                                  ![f.ctx].aborted = IF f.phase \in {"push", "stop"}
                                                     THEN TRUE ELSE @]
                 ELSE obs
       /\ frames' = IF f.kind = "fn"
                    THEN Append(Pop(Caller), [Top(Caller) EXCEPT !.seen = f.seen])
                    ELSE IF f.kind = "write" THEN frames ELSE Caller
       /\ exc' = (f.kind # "write" /\ Caller # << >>)
       /\ threw' = (f.kind # "write" /\ Caller = << >>)
       /\ failed' = (failed \/ (f.kind # "write" /\ Caller = << >>))
  /\ UNCHANGED <<reactive, cells, contexts, client, stashed, log>>

\* An exception leaves the innermost call.  execute() of signal.js runs its
\* finally block, stopTracking(), wherever in the try block the exception came
\* from; update() and effect() of reactive.js have no finally block.  With no
\* call left the exception has reached the client.
Unwind ==
  /\ exc /\ frames # << >>
  /\ ~(Top(frames).kind = "fn" /\ Top(frames).try)
  /\ \E f \in {Top(frames)} :
       /\ stack' = IF f.kind = "execute" THEN Pop(stack) ELSE stack
       /\ obs' = IF f.kind \in {"execute", "update"}
                 THEN [obs EXCEPT ![f.ctx].ctor = IF f.from = "effect" THEN "threw" ELSE @,
                                  ![f.ctx].reads = IF f.phase \in {"push", "stop"}
                                                   THEN f.seen ELSE @,
                                  ![f.ctx].aborted = IF f.phase \in {"push", "stop"}
                                                     THEN TRUE ELSE @]
                 ELSE obs
       /\ frames' = IF f.kind = "fn"
                    THEN Append(Pop(Caller), [Top(Caller) EXCEPT !.seen = f.seen])
                    ELSE Caller
  /\ exc' = (Caller # << >>)
  /\ threw' = (Caller = << >>)
  /\ failed' = (failed \/ Caller = << >>)
  /\ UNCHANGED <<reactive, cells, contexts, client, stashed, log>>

\* catch { } of the client function
Catch ==
  /\ exc /\ frames # << >>
  /\ Top(frames).kind = "fn" /\ Top(frames).try
  /\ exc' = FALSE
  /\ frames' = ReplaceTop([Top(frames) EXCEPT !.try = FALSE])
  /\ log' = Append(log, Event("catch", Top(frames).ctx, 0, 0))
  /\ UNCHANGED <<reactive, cells, contexts, stack, client, outcome, stashed, obs>>

----------------------------------------------------------------------------
(* reactive.js.  Values are numbers, which structuredClone returns as they are. *)

\* One closure made by effect(fn, refs) or computed(fn): fn, refs, the cell own
\* of a computed, and deps, the refs whose watch() handles are in `deps`.
\* In the watchlist the closure stands for its callback: update of a computed,
\* effect of a list-less effect, fn of an effect with a list.
NewReactive(f, refs, own) == [fn |-> f, refs |-> refs, own |-> own, deps |-> {}]

Lazy(e) == reactives[e].refs # << >>

UpdateFrame(e, from) ==
  [NoFrame EXCEPT !.kind = "update", !.ctx = e, !.phase = "start", !.from = from]
DispatchFrame(cell, snap) ==
  [NoFrame EXCEPT !.kind = "dispatch", !.cell = cell, !.snap = snap, !.idx = 1]

\* a watch() that registers nothing
WatchNothing(targets, e) == watchlist

\* watch(target, fn) for every target in targets
Watch(targets, e) ==
  [k \in DOMAIN watchlist |-> IF k \in targets THEN SetAdd(watchlist[k], e) ELSE watchlist[k]]

\* clear(): deps.forEach(fn => fn()) with fn = () => callbacks.delete(callback)
Clear(e) ==
  [k \in DOMAIN watchlist |->
     IF k \in reactives[e].deps THEN SetDelete(watchlist[k], e) ELSE watchlist[k]]

\* track(target): tracklist[tracklist.length - 1]?.add(target)
Track(cell) ==
  IF tracklist = << >> THEN tracklist
  ELSE [tracklist EXCEPT ![Len(tracklist)] = @ \cup {cell}]

Range(s) == {s[i] : i \in DOMAIN s}

\* const [getter, setter] = ref(value)
Ref ==
  /\ AtStatement("ref")
  /\ data' = Append(data, Statement.v)
  /\ watchlist' = Append(watchlist, << >>)
  /\ pcTop' = pcTop + 1 /\ log' = << >> /\ threw' = FALSE
  /\ UNCHANGED <<subscriptions, internal, contexts, stack, frames, exc, scenario, writes,
                 failed, stashed, tracklist, reactives, obs>>

\* effect(fn, refs): lazy() when refs is a non-empty list, effect() otherwise
ReactiveEffect ==
  /\ AtStatement("reffect")
  /\ reactives' = Append(reactives,
                    [NewReactive(Statement.fn, Statement.refs, 0)
                       EXCEPT !.deps = Range(Statement.refs)])
  /\ watchlist' = Watch(Range(Statement.refs), Len(reactives) + 1)
  /\ obs' = Append(obs, [NewObs(0) EXCEPT !.ctor = IF Statement.refs # << >>
                                                   THEN "returned" ELSE @])
  /\ frames' = IF Statement.refs # << >> THEN << >>
               ELSE << UpdateFrame(Len(reactives) + 1, "effect") >>
  /\ pcTop' = pcTop + 1 /\ log' = << >> /\ threw' = FALSE
  /\ UNCHANGED <<cells, contexts, stack, exc, scenario, writes, failed, stashed, tracklist>>

\* computed(fn): ref(undefined), then update()
ReactiveComputed ==
  /\ AtStatement("rcomputed")
  /\ data' = Append(data, Undef)
  /\ watchlist' = Append(watchlist, << >>)
  /\ internal' = internal \cup {Len(data) + 1}
  /\ reactives' = Append(reactives, NewReactive(Statement.fn, << >>, Len(data) + 1))
  /\ obs' = Append(obs, NewObs(0))
  /\ frames' = << UpdateFrame(Len(reactives) + 1, "effect") >>
  /\ pcTop' = pcTop + 1 /\ log' = << >> /\ threw' = FALSE
  /\ UNCHANGED <<subscriptions, contexts, stack, exc, scenario, writes, failed, stashed,
                 tracklist>>

\* getter(), called from outside any function
ReactiveClientRead(cell) ==
  /\ Idle /\ Reactive
  /\ tracklist' = Track(cell)
  /\ log' = << Event("read", 0, cell, data[cell]) >> /\ threw' = FALSE
  /\ UNCHANGED <<cells, contexts, stack, frames, exc, client, failed, stashed, watchlist,
                 reactives, obs>>

\* setter(fn), called from outside any function: data = fn(structuredClone(data))
\* and dispatch(getter, data), whatever the new value is
ReactiveClientWrite(cell, arg) ==
  /\ Idle /\ Reactive /\ writes < MaxWrites /\ cell \notin internal
  /\ data' = [data EXCEPT ![cell] = NextValue(arg, data[cell])]
  /\ frames' = << DispatchFrame(cell, watchlist[cell]) >>
  /\ writes' = writes + 1
  /\ obs' = ObsWrote
  /\ log' = << WriteEvent(0, cell, NextValue(arg, data[cell]), watchlist[cell]) >>
  /\ threw' = FALSE
  /\ UNCHANGED <<subscriptions, internal, contexts, stack, exc, scenario, pcTop, failed,
                 stashed, reactive>>

\* the clear that effect() and computed() return, called by the client
ReactiveClientClear(e) ==
  /\ Idle /\ Reactive
  /\ watchlist' = Clear(e)
  /\ reactives' = [reactives EXCEPT ![e].deps = {}]
  /\ log' = << Event("clear", e, 0, 0) >> /\ threw' = FALSE
  /\ UNCHANGED <<cells, contexts, stack, frames, exc, client, failed, stashed, tracklist, obs>>

\* dispatch(): [...watchlist.get(target)].forEach(fn => fn(value))
Dispatch ==
  /\ Running("dispatch")
  /\ \E f \in {Top(frames)} :
       IF f.idx <= Len(f.snap)
       THEN \E e \in {f.snap[f.idx]} :
              /\ frames' = Append(ReplaceTop([f EXCEPT !.idx = @ + 1]),
                                  IF Lazy(e) THEN FnFrame(e) ELSE UpdateFrame(e, "write"))
              /\ log' = IF Lazy(e) THEN Append(log, Event("run", e, 0, Len(frames))) ELSE log
              /\ obs' = IF Lazy(e)
                        THEN [obs EXCEPT ![e].runs = @ + 1,
                                         ![e].pre = IF obs[e].wrote THEN @ ELSE @ + 1]
                        ELSE obs
       ELSE frames' = Caller /\ UNCHANGED <<log, obs>>
  /\ UNCHANGED <<cells, contexts, stack, exc, client, outcome, stashed, reactive>>

\* update() / effect(): clear(); startTracking(); then fn is called
UpdateStart ==
  /\ Running("update") /\ Top(frames).phase = "start"
  /\ \E e \in {Top(frames).ctx} :
       /\ watchlist' = Clear(e)
       /\ reactives' = [reactives EXCEPT ![e].deps = {}]
       /\ tracklist' = Append(tracklist, {})
       /\ frames' = Append(ReplaceTop([Top(frames) EXCEPT !.phase = "stop"]), FnFrame(e))
       /\ log' = Append(log, Event("run", e, 0, Len(frames)))
       /\ obs' = [obs EXCEPT ![e].runs = @ + 1,
                             ![e].pre = IF obs[e].wrote THEN @ ELSE @ + 1,
                             ![e].aborted = FALSE]
  /\ UNCHANGED <<cells, contexts, stack, exc, client, outcome, stashed>>

\* update() / effect(): stopTracking().forEach((dep) => deps.add(watch(dep, update)))
UpdateStop ==
  /\ Running("update") /\ Top(frames).phase = "stop"
  /\ \E f \in {Top(frames)}, tracked \in {IF tracklist = << >> THEN {} ELSE Top(tracklist)} :
       /\ tracklist' = Pop(tracklist)
       /\ watchlist' = Watch(tracked, f.ctx)
       /\ reactives' = [reactives EXCEPT ![f.ctx].deps = tracked]
       /\ obs' = [obs EXCEPT ![f.ctx].ctor = IF f.from = "effect" THEN "returned" ELSE @,
                             ![f.ctx].reads = f.seen]
       /\ log' = Append(log, Event("executed", f.ctx, 0, 0))
  /\ frames' = Caller
  /\ UNCHANGED <<cells, contexts, stack, exc, client, outcome, stashed>>

\* acc = c()  (getter() of reactive.js)
ReactiveRead ==
  /\ AtInstr({"read"}) /\ Reactive
  /\ tracklist' = Track(Instr.cell)
  /\ frames' = ReplaceTop([Advance(Top(frames)) EXCEPT !.acc = data[Instr.cell],
                                                       !.seen = @ \cup {Instr.cell}])
  /\ log' = Append(log, Event("read", Top(frames).ctx, Instr.cell, data[Instr.cell]))
  /\ UNCHANGED <<cells, contexts, stack, exc, client, outcome, stashed, watchlist,
                 reactives, obs>>

\* setC(() => acc), possibly inside try { } catch { }  (setter() of reactive.js)
ReactiveWrite ==
  /\ AtInstr({"write", "trywrite"}) /\ Reactive
  /\ \E f \in {Top(frames)}, cell \in {Instr.cell} :
       /\ data' = [data EXCEPT ![cell] = f.acc]
       /\ frames' = Append(ReplaceTop([Advance(f) EXCEPT !.try = (Instr.op = "trywrite")]),
                           DispatchFrame(cell, watchlist[cell]))
       /\ log' = Append(log, WriteEvent(f.ctx, cell, f.acc, watchlist[cell]))
       /\ obs' = IF ClientCode(f) THEN ObsWrote ELSE obs
  /\ UNCHANGED <<subscriptions, internal, contexts, stack, exc, client, outcome, stashed,
                 reactive>>

Next ==
  \/ Signal \/ Effect \/ Computed
  \/ \E cell \in DOMAIN data : ClientRead(cell)
  \/ \E cell \in DOMAIN data, arg \in Args : ClientWrite(cell, arg)
  \/ \E c \in Disposers : ClientDispose(c)
  \/ WriteFanout
  \/ ExecuteDispose \/ ExecuteTrack \/ ExecutePush
  \/ DisposeDependencies \/ DisposeSubscriptions \/ DisposeDisposables
  \/ FnRead \/ FnWrite \/ FnEffect \/ FnLocal \/ FnStash \/ FnThrow \/ FnReturn
  \/ Unwind \/ Catch
  \/ Ref \/ ReactiveEffect \/ ReactiveComputed
  \/ \E cell \in DOMAIN data : ReactiveClientRead(cell)
  \/ \E cell \in DOMAIN data, arg \in Args : ReactiveClientWrite(cell, arg)
  \/ \E e \in DOMAIN reactives : ReactiveClientClear(e)
  \/ Dispatch \/ UpdateStart \/ UpdateStop
  \/ ReactiveRead \/ ReactiveWrite

Spec == Init /\ [][Next]_vars

----------------------------------------------------------------------------
(* What the checked properties are stated with *)

\* the client program has run to its end
Built == pcTop > Len(Program(scenario))

\* the step is a call of write() / of read(): it adds the call's event to the log
WriteStep(ev) == (log' # log \/ writes' # writes) /\ log' # << >> /\ Top(log').ev = ev
ReadStep ==
  \/ /\ Idle /\ frames' = << >> /\ pcTop' = pcTop /\ writes' = writes
     /\ log' # << >> /\ log'[1].ev = "read"
  \/ /\ frames # << >> /\ Len(log') = Len(log) + 1 /\ Top(log').ev = "read"

\* how often fn of context c was called / returned during the current client call
Count(ev, c) == Cardinality({i \in DOMAIN log : log[i].ev = ev /\ log[i].ctx = c})

\* What the functions of a program do, read off their instructions.
Ops(f) == {Fn(f)[i].op : i \in DOMAIN Fn(f)}
Returns(f) == {Fn(f)[i].rv : i \in {j \in DOMAIN Fn(f) : Fn(f)[j].op = "ret"}}

\* the functions a signal.js program passes to effect() at top level, those
\* effects create in turn, and the functions passed to computed()
TopFns(s) ==
  {Program(s)[i].fn : i \in {j \in DOMAIN Program(s) : Program(s)[j].st = "effect"}}
InnerFns(F) ==
  UNION {{Fn(f)[i].fn : i \in {j \in DOMAIN Fn(f) : Fn(f)[j].op = "effect"}} : f \in F}
EffectFns(s) == TopFns(s) \cup InnerFns(TopFns(s)) \cup InnerFns(InnerFns(TopFns(s)))
ComputedFns(s) ==
  {Program(s)[i].fn : i \in {j \in DOMAIN Program(s) : Program(s)[j].st = "computed"}}

\* The client keeps to the declared types: what a function returns is a
\* cleanup or nothing (CallableFunction | void), and cleanups do not throw.
Typed(s) == \A f \in EffectFns(s) \cup ComputedFns(s) : Returns(f) \subseteq {"cleanup"}

\* a signal.js program all of whose effects are top-level effects with bodies
\* that neither write a cell nor throw, and that has no computed
PlainEffects(s) ==
  /\ s \notin ReactiveScenarios /\ Typed(s) /\ ComputedFns(s) = {}
  /\ \A f \in EffectFns(s) : Ops(f) \cap {"write", "trywrite", "throw", "effect"} = {}

\* the cells whose subscriber Set has context c
Members(c) == {k \in DOMAIN subscriptions : SetHas(subscriptions[k], c)}

----------------------------------------------------------------------------
(* C1 *)

\* C1: a call of write() of signal.js, from the client or from inside a
\* function, with a value (or an updater whose result is) strictly equal to the
\* cell's value executes no context (the call stack holds no new call and no
\* function has been called once more) and leaves every cell's value, every
\* subscriber Set, every context (dependencies, children, cleanups) and the
\* context stack as they were.
C1_WriteSuppression ==
  [][(~Reactive /\ WriteStep("same")) =>
       /\ UNCHANGED <<data, subscriptions, contexts, stack>>
       /\ Len(frames') = Len(frames)
       /\ \A i \in DOMAIN frames : frames'[i].kind = frames[i].kind
       /\ \A c \in DOMAIN obs : obs'[c].runs = obs[c].runs]_vars

\* a write of the value a cell holds has returned, the cell having subscribers
C1_Witness ==
  /\ ~Reactive /\ Idle /\ log # << >>
  /\ log[1].ev = "same" /\ log[1].snap # << >> /\ log[1].val = data[log[1].cell]

----------------------------------------------------------------------------
(* C2 *)

\* C2: in a signal.js program whose effects are all top-level and have bodies
\* that neither write nor throw, a client write that changes a cell's value
\* runs each effect that read the cell during its most recent run (and was not
\* disposed since) exactly once and runs no other effect: during the write no
\* effect runs more often than that, and when the write has returned every
\* such effect has run once, to completion.
C2_ChangeNotification ==
  (PlainEffects(scenario) /\ log # << >> /\ log[1].ev = "write") =>
    \A c \in DOMAIN contexts :
      /\ Count("run", c) <= (IF obs[c].hit THEN 1 ELSE 0)
      /\ Idle => /\ Count("run", c) = (IF obs[c].hit THEN 1 ELSE 0)
                 /\ Count("ran", c) = Count("run", c)
                 /\ ~threw

\* a value-changing write has returned; it ran one of three effects
C2_Witness ==
  /\ scenario = "shared" /\ Built /\ Idle /\ log # << >> /\ log[1].ev = "write"
  /\ Cardinality({c \in DOMAIN contexts : obs[c].hit /\ Count("ran", c) = 1}) = 1
  /\ Cardinality({c \in DOMAIN contexts : ~obs[c].hit /\ Count("run", c) = 0}) = 2

----------------------------------------------------------------------------
(* C3 *)

\* the constructor of the effect or computed c calls its function (in
\* reactive.js: effect() without a list of refs, and computed())
Eager(c) == IF Reactive THEN ~Lazy(c) ELSE TRUE

\* C3: constructing an effect or a computed (signal.js effect and computed,
\* reactive.js computed and effect without a list) calls the wrapped function
\* exactly once before the constructor returns and before client code has written
\* any cell: when the constructor has exited exactly one call of the function
\* began before any write, and as long as nothing has been written the
\* function has been called exactly once; while the constructor runs there is at
\* most one such call.
C3_EagerFirstRun ==
  \A c \in DOMAIN obs :
    Eager(c) =>
      /\ obs[c].ctor = "running" => obs[c].pre <= 1
      /\ obs[c].ctor # "running" => obs[c].pre = 1 /\ (~obs[c].wrote => obs[c].runs = 1)

\* signal.js: a computed and an effect have been constructed, nothing written yet
C3_Witness ==
  /\ scenario = "derived" /\ Built /\ Idle /\ writes = 0
  /\ \A c \in DOMAIN obs : obs[c].ctor = "returned" /\ obs[c].runs = 1 /\ ~obs[c].wrote
  /\ \E c \in DOMAIN contexts : contexts[c].own # 0
  /\ \E c \in DOMAIN contexts : contexts[c].own = 0

----------------------------------------------------------------------------
(* C4 *)

\* execute() of a context has just returned normally; the event tells whether
\* the context was disposed while its function ran
Executed == ~Reactive /\ log # << >> /\ Top(log).ev = "executed"

\* the example: the effect reads c() ? b() : a(); c is truthy, so the last run
\* read c and b; a value-changing write to a has returned
UnreadWritten ==
  /\ scenario = "cond" /\ Built /\ Idle /\ log # << >>
  /\ log[1].ev = "write" /\ log[1].cell = 1 /\ ~Falsy(data[3])

----------------------------------------------------------------------------
(* C5 *)

\* the contexts made by effect() calls in the function of context o
Inner(o) == {i \in DOMAIN contexts : obs[i].creator = o}
Newest(S) == CHOOSE i \in S : \A j \in S : j <= i

\* how often the functions of the contexts in S were called during the
\* current client call
RECURSIVE CountAll(_, _)
CountAll(ev, S) ==
  IF S = {} THEN 0
  ELSE LET c == CHOOSE x \in S : TRUE IN Count(ev, c) + CountAll(ev, S \ {c})

\* the body of an outer effect is about to execute: every inner effect made by
\* its earlier runs is in no subscriber Set and has had its cleanups invoked
InnerDisposedFirst ==
  (log # << >> /\ Top(log).ev = "run") =>
    \A i \in Inner(Top(log).ctx) :
      Members(i) = {} /\ contexts[i].disposables = << >> /\ obs[i].inv = obs[i].reg

\* a run of an outer effect has returned: it made one more inner effect, whose
\* function has been called once
FreshInnerRunsOnce ==
  (Executed /\ Inner(Top(log).ctx) # {}) =>
    /\ Cardinality(Inner(Top(log).ctx)) = obs[Top(log).ctx].runs
    /\ obs[Newest(Inner(Top(log).ctx))].runs = 1

\* a client write that re-ran an outer effect has returned: the inner function
\* was called once for each run of the outer effect
InnerRunsPerOuterRun ==
  (Idle /\ log # << >> /\ log[1].ev = "write") =>
    \A o \in DOMAIN contexts :
      (Inner(o) # {} /\ Count("run", o) > 0) => CountAll("run", Inner(o)) = Count("run", o)

\* C5: every time an outer effect of signal.js re-runs, each inner effect made
\* by its previous run is disposed (cleanup invoked, removed from all
\* subscriber Sets) before the outer body executes again, and the outer body
\* then makes a fresh inner effect whose function runs exactly once for that
\* outer run.  (Programs in which no function throws or writes, and the client
\* keeps to the declared types.)
C5_NestedDisposal ==
  (scenario \in {"nested", "nestedA"}) =>
    InnerDisposedFirst /\ FreshInnerRunsOnce /\ InnerRunsPerOuterRun

\* outer and inner effect read the same cell; one write to it has re-run the
\* outer effect once and has called the inner function twice
C5_Witness ==
  /\ scenario = "nestedA" /\ Built /\ Idle /\ log # << >> /\ log[1].ev = "write"
  /\ Count("run", 1) = 1 /\ CountAll("run", Inner(1)) = 2
  /\ Cardinality(Inner(1)) = 2

----------------------------------------------------------------------------
(* C6 *)

\* the function of context c returns a cleanup from every run
AlwaysCleanup(c) ==
  /\ Fn(contexts[c].fn) # << >>
  /\ Fn(contexts[c].fn)[Len(Fn(contexts[c].fn))].op = "ret"
  /\ Ops(contexts[c].fn) \cap {"throw", "write", "trywrite"} = {}

\* the function of context c has just been called
BodyStarts(c) == log # << >> /\ Top(log).ev = "run" /\ Top(log).ctx = c

\* C6: for every effect of signal.js, a cleanup is invoked only after the run
\* that returned it, and at most once; when the body of a run starts, every
\* cleanup returned by the earlier runs has been invoked (run k+1 starts after
\* the cleanup of run k, none is pending), which for a function that returns a
\* cleanup from every run means one invocation per earlier run.  (The client
\* keeps to the declared types: cleanups are callable and do not throw.)
C6_CleanupOrdering ==
  (Typed(scenario) /\ ~Reactive) =>
    \A c \in DOMAIN contexts :
      /\ obs[c].inv <= obs[c].reg
      /\ BodyStarts(c) =>
           /\ contexts[c].disposables = << >>
           /\ obs[c].inv = obs[c].reg
           /\ AlwaysCleanup(c) => obs[c].inv = obs[c].runs - 1

\* the body of the second run of an effect starts; the cleanup its first run
\* returned was invoked just before, during the same write
C6_Witness ==
  /\ scenario = "shared" /\ BodyStarts(3) /\ obs[3].runs = 2 /\ obs[3].inv = 1
  /\ \E i \in DOMAIN log : log[i].ev = "cleanup" /\ log[i].ctx = 3

----------------------------------------------------------------------------
(* C7 *)

\* the contexts whose function the current client write called itself, in the
\* order of the calls (execute() called by the write is the second call on the
\* call stack)
RECURSIVE DirectRuns(_)
DirectRuns(n) ==
  IF n = 0 THEN << >>
  ELSE IF log[n].ev = "run" /\ log[n].val = 2
       THEN Append(DirectRuns(n - 1), log[n].ctx)
       ELSE DirectRuns(n - 1)

IsPrefix(s, t) == Len(s) <= Len(t) /\ s = SubSeq(t, 1, Len(s))

\* C7: a value-changing client write of signal.js runs the subscribers of the
\* cell in the order in which they are registered in the cell's subscriber Set
\* (S1, S2, S3): at every moment of the write the functions it has called are,
\* in order, the first subscribers of the Set as it was when write() was called,
\* and when the write has returned normally they are all of them.
C7_FanoutOrder ==
  (~Reactive /\ log # << >> /\ log[1].ev = "write" /\ log[1].ctx = 0) =>
    /\ IsPrefix(DirectRuns(Len(log)), log[1].snap)
    /\ (Idle /\ ~threw) => DirectRuns(Len(log)) = log[1].snap

\* a write to a cell with three subscribers has returned
C7_Witness ==
  /\ scenario = "shared" /\ Idle /\ ~threw /\ log # << >> /\ log[1].ev = "write"
  /\ log[1].snap = << 1, 2, 3 >> /\ DirectRuns(Len(log)) = << 1, 2, 3 >>

----------------------------------------------------------------------------
(* C8 *)

\* What a pure function returns for the current values of the cells: its
\* instructions (reads and local steps only) run from idx with local acc.
RECURSIVE Exec(_, _, _)
Exec(ops, idx, acc) ==
  IF idx > Len(ops) THEN acc
  ELSE CASE ops[idx].op = "read" -> Exec(ops, idx + 1, data[ops[idx].cell])
         [] ops[idx].op = "lit"  -> Exec(ops, idx + 1, ops[idx].v)
         [] ops[idx].op = "gt0"  -> Exec(ops, idx + 1, IF acc > 0 THEN 1 ELSE 0)
         [] ops[idx].op = "jf"   -> Exec(ops, IF Falsy(acc) THEN ops[idx].to ELSE idx + 1, acc)
         [] ops[idx].op = "jmp"  -> Exec(ops, ops[idx].to, acc)
         [] OTHER                -> acc
Eval(f) == Exec(Fn(f), 1, 0)

\* the computeds of signal.js whose constructor has returned
Computeds == {c \in DOMAIN contexts : contexts[c].own # 0 /\ obs[c].ctor = "returned"}

\* every derived cell holds what its function returns for the current values
Consistent == \A c \in Computeds : data[contexts[c].own] = Eval(contexts[c].fn)

----------------------------------------------------------------------------
(* C9 *)

\* during the current client call the computed cell k was recomputed, always
\* to the value it held
Recomputed(k) ==
  /\ \E i \in DOMAIN log : log[i].ev = "same" /\ log[i].cell = k /\ log[i].ctx # 0
  /\ ~\E i \in DOMAIN log : log[i].ev = "write" /\ log[i].cell = k

\* C9: when a client write to a source cell makes a computed of signal.js
\* recompute to a value strictly equal to the one it held, no effect whose
\* function reads only that computed is run by that write.
C9_DerivedSuppression ==
  (~Reactive /\ log # << >> /\ log[1].ev = "write" /\ log[1].ctx = 0) =>
    \A k \in internal :
      Recomputed(k) =>
        \A e \in DOMAIN contexts :
          (contexts[e].own = 0 /\ obs[e].reads = {k}) => Count("run", e) = 0

\* a changed from 0 to NaN: a > 0 ? 1 : 0 is recomputed to 0 again, the effect
\* that reads only this computed has not run, the one that also reads the
\* second computed of a has
C9_Witness ==
  /\ scenario = "derived" /\ Built /\ Idle /\ log # << >>
  /\ log[1].ev = "write" /\ log[1].cell = 1 /\ Recomputed(2)
  /\ Count("run", 1) = 1 /\ Count("run", 4) = 0 /\ Count("run", 3) = 1
  /\ obs[4].reads = {2}

----------------------------------------------------------------------------
(* C10 *)

\* C10: a read() of signal.js made while the context stack is empty, by the
\* client or inside a function, changes no cell value, no subscriber Set, no
\* context (no dependencies list grows) and not the stack; a later write to
\* the cell therefore finds the subscriber Set the read found.
C10_ReadWithoutTracking ==
  [][(~Reactive /\ ReadStep /\ stack = << >>) =>
       UNCHANGED <<data, subscriptions, internal, contexts, stack>>]_vars

\* the client has read a cell that has subscribers, outside any effect
C10_Witness ==
  /\ ~Reactive /\ Idle /\ stack = << >> /\ log # << >>
  /\ log[1].ev = "read" /\ log[1].ctx = 0 /\ subscriptions[log[1].cell] # << >>

----------------------------------------------------------------------------
(* C11 *)

\* an exception is leaving execute() of signal.js
ExecuteThrows == ~Reactive /\ exc /\ frames # << >> /\ Top(frames).kind = "execute"

\* C11: when the function of an effect of signal.js throws during a run (at
\* construction or in a write's fan-out), execute() exits with the context
\* stack exactly as it was when execute() was entered, and the exception is
\* still in flight in the caller (the write's forEach or the caller of
\* effect()) or has reached the client.  (The client keeps to the declared
\* types: cleanups do not throw.)
C11_ExceptionSafeUnwinding ==
  [][(Typed(scenario) /\ ExecuteThrows /\ Top(frames).phase = "push") =>
       /\ frames' = Caller
       /\ stack' = Top(frames).entry
       /\ (exc' \/ threw')]_vars

\* an inner effect threw while the outer effect was being constructed: its
\* execute() has exited, the stack holds the outer context alone again and the
\* exception is in the outer function, which called effect()
C11_Witness ==
  /\ scenario = "nestedThrow" /\ exc /\ frames # << >>
  /\ Top(frames).kind = "fn" /\ Top(frames).ctx = 1
  /\ obs[2].ctor = "threw" /\ obs[2].runs = 1 /\ stack = << 1 >>

----------------------------------------------------------------------------
(* C12 *)

\* execute() of signal.js exits, normally or with an exception
ExecuteExits ==
  ~Reactive /\ frames # << >> /\ Top(frames).kind = "execute" /\ frames' = Caller

\* C12: every exit of execute() of signal.js, also the one caused by a cleanup
\* that throws inside the leading dispose() of a re-run, leaves the context
\* stack exactly as it was when execute() was entered; an effect on the stack
\* whose write triggers such a failing re-run is still on top of the stack.
C12_StackIntegrity ==
  [][ExecuteExits => stack' = Top(frames).entry]_vars

\* the function of the second effect wrote a inside try/catch; the re-run of
\* the first effect failed in its cleanup; the function goes on after the catch
\* while the context stack is empty
C12_Witness ==
  /\ scenario = "badClean" /\ Running("fn") /\ Top(frames).ctx = 2
  /\ \E i \in DOMAIN log : log[i].ev = "catch" /\ log[i].ctx = 2
  /\ Len(frames) = 3 /\ stack = << >>

----------------------------------------------------------------------------
(* C13 *)

\* the function of a subscriber threw during the current client call
BodyThrew == \E i \in DOMAIN log : log[i].ev = "throw"

\* the current client call wrote cell k once
WrittenOnce(k) ==
  Cardinality({i \in DOMAIN log : log[i].ev \in {"write", "same"} /\ log[i].cell = k}) = 1

\* C13: an exception thrown by the body of a subscriber during the fan-out of
\* a write() of signal.js is not caught by the engine: it stays in flight until
\* client code catches it or it has reached the client.  When it has reached
\* the client that called write(), the cell holds the new value, the
\* subscribers that write ran are the first ones of its copy of the Set, the
\* last of them did not finish, and those that come later were not run by it.
C13_ExceptionPropagation ==
  /\ [][(~Reactive /\ exc /\ ~exc') => (threw' \/ Top(log').ev = "catch")]_vars
  /\ [](( /\ ~Reactive /\ Idle /\ threw /\ BodyThrew
          /\ log[1].ev = "write" /\ log[1].ctx = 0 /\ WrittenOnce(log[1].cell)) =>
         /\ data[log[1].cell] = log[1].val
         /\ DirectRuns(Len(log)) # << >>
         /\ IsPrefix(DirectRuns(Len(log)), log[1].snap)
         /\ Count("executed", Top(DirectRuns(Len(log)))) = 0)

\* setA(1) has thrown: the first subscriber of a threw, a holds 1 and the
\* second subscriber was not run
C13_Witness ==
  /\ scenario = "thrower" /\ Built /\ Idle /\ threw /\ BodyThrew
  /\ log[1].ev = "write" /\ log[1].cell = 1 /\ data[1] = 1
  /\ log[1].snap = << 1, 2 >> /\ DirectRuns(Len(log)) = << 1 >> /\ Count("run", 2) = 0

----------------------------------------------------------------------------
(* C14 *)

\* the effects of signal.js (not computeds) that the client constructed and
\* whose constructor has returned
Effects ==
  {c \in DOMAIN contexts :
     contexts[c].own = 0 /\ obs[c].creator = 0 /\ obs[c].ctor = "returned"}

\* C14: effect(fn) of signal.js hands its caller a dispose procedure, and a
\* top-level effect that has been disposed and not run since is in no
\* subscriber Set, so that no later write re-runs its function.
C14_EffectReturnsDispose ==
  \A c \in Effects :
    /\ "dispose" \in obs[c].result
    /\ (Idle /\ obs[c].disposed) => Members(c) = {}

\* three effects have been constructed; the client was handed nothing and
\* holds no dispose procedure
C14_Witness ==
  /\ scenario = "shared" /\ Built /\ Idle /\ Effects = {1, 2, 3}
  /\ \A c \in Effects : obs[c].result = {} /\ Members(c) # {}
  /\ Disposers = {}

----------------------------------------------------------------------------
(* C15 *)

\* C15: computed(fn) of signal.js hands its caller the read accessor and the
\* dispose procedure of the wrapping effect, and a computed that has been
\* disposed and not run since is in no subscriber Set, so that writes to the
\* cells its function read neither re-run the function nor change its value.
C15_ComputedReturnsDispose ==
  \A c \in Computeds :
    /\ {"read", "dispose"} \subseteq obs[c].result
    /\ (Idle /\ obs[c].disposed) => Members(c) = {}

\* two computeds have been constructed; the client was handed their read
\* accessors only, and both stay subscribed to the cell they read
C15_Witness ==
  /\ scenario = "derived" /\ Built /\ Idle /\ Computeds = {1, 2}
  /\ \A c \in Computeds : obs[c].result = {"read"} /\ Members(c) = {1}
  /\ Disposers = {}

----------------------------------------------------------------------------
(* C16 *)

\* dispose() of signal.js is running for a context that had been disposed and
\* not run since when dispose() was called
Redisposing == ~Reactive /\ Running("dispose") /\ Top(frames).mark = 1

\* C16: a dispose() of signal.js called for a context that has been disposed
\* and not run since does nothing: none of its steps changes a subscriber Set,
\* a context's lists, a cell or the stack, calls a child's dispose or invokes
\* a cleanup; and no context ever has more cleanups invoked than its runs
\* registered.  (The client keeps to the declared types: cleanups do not
\* throw.)
C16_DisposeIdempotence ==
  /\ [][(Typed(scenario) /\ Redisposing) =>
          /\ UNCHANGED <<data, subscriptions, contexts, stack, exc>>
          /\ Len(frames') <= Len(frames)
          /\ \A c \in DOMAIN obs : obs'[c].inv = obs[c].inv]_vars
  /\ []((Typed(scenario) /\ ~Reactive) =>
          \A c \in DOMAIN contexts : obs[c].inv <= obs[c].reg)

\* the client has called the dispose of an effect a second time in a row; the
\* one cleanup the effect had registered has been invoked once
C16_Witness ==
  /\ scenario = "keeper" /\ Idle /\ log # << >>
  /\ Top(log).ev = "disposed" /\ Top(log).ctx = 1 /\ Top(log).val = 1
  /\ obs[1].reg = 1 /\ obs[1].inv = 1 /\ Members(1) = {}

----------------------------------------------------------------------------
(* C17 *)

\* the contexts made by effect() calls in the function of context o, and in
\* the functions of those contexts in turn
RECURSIVE Descendants(_)
Descendants(o) == Inner(o) \cup UNION {Descendants(i) : i \in Inner(o)}

\* context c is in no subscriber Set and holds no dependency and no cleanup;
\* every cleanup its runs registered has been invoked
Released(c) ==
  /\ Members(c) = {}
  /\ contexts[c].dependencies = << >> /\ contexts[c].disposables = << >>
  /\ obs[c].inv = obs[c].reg

\* C17: when dispose() of a context of signal.js returns, that context and
\* every context created inside its runs, transitively, is in no subscriber
\* Set and has had every cleanup it registered invoked, whatever writes re-ran
\* the parent or the children before.
C17_DisposalCascade ==
  (~Reactive /\ log # << >> /\ Top(log).ev = "disposed") =>
    \A d \in {Top(log).ctx} \cup Descendants(Top(log).ctx) : Released(d)

\* three levels, the outermost and the innermost read a: the second write to
\* a re-runs the outermost effect, whose leading dispose() has returned while
\* an innermost context made by its first run is still subscribed to a
C17_Witness ==
  /\ scenario = "nested3" /\ log # << >> /\ Top(log).ev = "disposed" /\ Top(log).ctx = 1
  /\ writes = 2 /\ 3 \in Descendants(1) /\ Members(3) = {1}
  /\ contexts[3].disposables # << >>

----------------------------------------------------------------------------
(* C18 *)

\* the contexts whose last run had read the cell the current client write
\* wrote, and that were not disposed since
Readers == {c \in DOMAIN contexts : obs[c].hit}

\* C18: when the only effect of signal.js that read a cell is an inner effect
\* (created inside the function of an outer effect, which did not read the
\* cell), a value-changing write to that cell runs the inner effect exactly
\* once (to its end, unless its function throws) and runs no other effect,
\* the outer one included.  (The client keeps to the declared types.)
C18_InnerIndependence ==
  ( /\ ~Reactive /\ Typed(scenario) /\ Idle /\ log # << >>
    /\ log[1].ev = "write" /\ log[1].ctx = 0 ) =>
    \A i \in DOMAIN contexts :
      (Readers = {i} /\ obs[i].creator # 0) =>
        /\ Count("run", i) = 1
        /\ ~threw => Count("ran", i) = 1
        /\ \A c \in DOMAIN contexts \ {i} : Count("run", c) = 0

\* the outer effect read a, the inner effect read b; a write to b has returned:
\* the inner function ran a second time, the outer function did not
C18_Witness ==
  /\ scenario = "nested" /\ Built /\ Idle /\ log # << >>
  /\ log[1].ev = "write" /\ log[1].cell = 2 /\ Readers = {2}
  /\ obs[2].creator = 1 /\ obs[2].runs = 2 /\ obs[1].runs = 1
  /\ Count("run", 2) = 1 /\ Count("run", 1) = 0

----------------------------------------------------------------------------
(* C19 *)

\* the effects of reactive.js that were given a list of refs
Lazies == {e \in DOMAIN reactives : Reactive /\ Lazy(e)}

\* the setter calls the current client call has made on the refs listed by e
Setters(e) ==
  Cardinality({i \in DOMAIN log : /\ log[i].ev \in {"write", "same"}
                                  /\ log[i].cell \in Range(reactives[e].refs)})

\* constructing a lazy effect does not call its function
NotRunAtConstruction == \A e \in Lazies : ~obs[e].wrote => obs[e].runs = 0

----------------------------------------------------------------------------
(* C20 *)

\* the effects without a list and the computeds of reactive.js: the
\* computations that track what they read
Trackers == {e \in DOMAIN reactives : Reactive /\ ~Lazy(e)}

\* C20: a read made inside the callback of a lazy effect of reactive.js is
\* recorded as a dependency of no computation: the refs a tracking effect or
\* computed watches are among the refs its own function read during its last
\* run, also when a setter call inside that function fired the callback.
C20_LazyIsolation ==
  \A e \in Trackers : reactives[e].deps \subseteq obs[e].reads

\* the function of an effect sets a and reads nothing; the lazy effect on a
\* reads b in its callback; the first effect has ended up watching b
C20_Witness ==
  /\ scenario = "rlazy" /\ Built /\ Idle /\ Trackers = {2}
  /\ obs[2].reads = {} /\ reactives[2].deps = {2} /\ SetHas(watchlist[2], 2)

----------------------------------------------------------------------------
(* C21 *)

\* the step is a read() of cell k made while context c is on top of the stack
ReadBy(c, k) ==
  /\ ReadStep /\ Top(log').cell = k
  /\ stack # << >> /\ Top(stack) = c

\* the step is the first one of dispose() of context c
DisposeOf(c) ==
  Running("dispose") /\ Top(frames).ctx = c /\ Top(frames).phase = "dependencies"

\* C21: in signal.js a context enters a cell's subscriber Set only in a step
\* that is a read of that cell made while the context is the top of the
\* context stack, and leaves it only in a step of its own dispose(); no
\* write and no run or dispose of another context adds or removes it, and no
\* subscriber Set ever holds a context twice.
C21_SubscriberMembership ==
  /\ [][~Reactive =>
          \A k \in DOMAIN subscriptions : \A c \in DOMAIN contexts :
            /\ (~SetHas(subscriptions[k], c) /\ SetHas(subscriptions'[k], c)) => ReadBy(c, k)
            /\ (SetHas(subscriptions[k], c) /\ ~SetHas(subscriptions'[k], c)) => DisposeOf(c)]_vars
  /\ [](\A k \in DOMAIN subscriptions :
          Cardinality(Range(subscriptions[k])) = Len(subscriptions[k]))

\* three effects read a; the second one, which also read b, has just been
\* removed from both Sets by its own dispose() while the others stay in a's
C21_Witness ==
  /\ scenario = "shared" /\ log # << >> /\ Top(log).ev = "dispose" /\ Top(log).ctx = 2
  /\ obs[2].runs = 1 /\ obs[2].reads = {1, 2} /\ Members(2) = {}
  /\ subscriptions[1] = << 1, 3 >>

----------------------------------------------------------------------------
(* C22 *)

\* the positions in the log of the events ev of context c / on cell k
RunsOf(c) == {i \in DOMAIN log : log[i].ev = "run" /\ log[i].ctx = c}
ChangesOf(k) == {i \in DOMAIN log : log[i].ev = "write" /\ log[i].cell = k}
Min(S) == CHOOSE i \in S : \A j \in S : i <= j

\* what context c read from cell k in the run that began at position n
ReadIn(c, k, n) ==
  LET later == {i \in DOMAIN log : /\ i > n /\ log[i].ev = "read"
                                    /\ log[i].ctx = c /\ log[i].cell = k}
  IN log[Min(later)].val

\* The program: cell a (1), computeds b (2) and c (3) of a, effect D (context
\* 3) reading b and c; a client write to a that changed b and c has returned.
Diamond ==
  /\ scenario = "derived" /\ Idle /\ ~threw /\ 3 \in DOMAIN contexts /\ log # << >>
  /\ log[1].ev = "write" /\ log[1].ctx = 0 /\ log[1].cell = 1
  /\ ChangesOf(2) # {} /\ ChangesOf(3) # {}

\* C22: the fan-out of signal.js is depth-first and not deduplicated: a write
\* to a that changes the computeds b and c runs the effect D, which reads
\* both, twice; the first run of D begins before c is written and reads the
\* new b together with the old c.
C22_DepthFirstFanout ==
  Diamond =>
    /\ Cardinality(RunsOf(3)) = 2
    /\ Min(ChangesOf(2)) < Min(RunsOf(3)) /\ Min(RunsOf(3)) < Min(ChangesOf(3))
    /\ ReadIn(3, 2, Min(RunsOf(3))) = log[Min(ChangesOf(2))].val
    /\ StrictNe(ReadIn(3, 3, Min(RunsOf(3))), log[Min(ChangesOf(3))].val)
    /\ data[3] = log[Min(ChangesOf(3))].val

\* a changed from 0 to 1: b and c changed from 0 to 1, D ran twice and its
\* first run read b = 1 with c = 0
C22_Witness ==
  /\ Diamond /\ data = << 1, 1, 1 >> /\ Cardinality(RunsOf(3)) = 2
  /\ ReadIn(3, 2, Min(RunsOf(3))) = 1 /\ ReadIn(3, 3, Min(RunsOf(3))) = 0

----------------------------------------------------------------------------
(* C23 *)

\* the effect of the program whose function reads a and then writes to a a
\* value a does not hold has been constructed or is being constructed
Looping == scenario = "loop" /\ contexts # << >>

\* C23: an effect of signal.js whose function reads a cell and then writes a
\* different value to it re-enters its own run from inside the write and
\* never comes back: every write of the function changes the cell, no call of
\* the function and no execute() ever returns, no exception ends it, and the
\* context stack holds the context once for every run begun; the stack only
\* grows, to any depth.
C23_UnguardedReentrancy ==
  /\ [](Looping =>
          /\ obs[1].ctor = "running" /\ ~exc /\ frames # << >>
          /\ Count("ran", 1) = 0 /\ Count("executed", 1) = 0 /\ Count("same", 1) = 0
          /\ Len(stack) = obs[1].runs /\ Range(stack) \subseteq {1}
          /\ Cardinality(ChangesOf(1)) >= obs[1].runs - 1)
  /\ [][Looping => Len(stack') >= Len(stack)]_vars

\* the function has re-entered itself until the stack holds MaxDepth contexts
C23_Witness ==
  /\ Looping /\ Len(stack) = MaxDepth /\ obs[1].runs = MaxDepth
  /\ Cardinality(ChangesOf(1)) = MaxDepth - 1 /\ Running("fn")

----------------------------------------------------------------------------
(* C24 *)

\* no function of the program throws: no throw statement, and what the
\* functions return is a cleanup or nothing, so that dispose() cannot throw
NoThrow(s) ==
  Typed(s) /\ \A f \in EffectFns(s) \cup ComputedFns(s) : "throw" \notin Ops(f)

\* the contexts whose function is executing, outermost first
FnChain ==
  LET calls == SelectSeq(frames, LAMBDA f : f.kind = "fn")
  IN [i \in 1..Len(calls) |-> calls[i].ctx]

\* the function of the innermost run has returned to execute(), which has not
\* reached stopTracking() yet
Returning == frames # << >> /\ Top(frames).kind = "execute" /\ Top(frames).phase = "push"

\* C24: when no function throws, in every reachable state of a signal.js
\* program the context stack is the chain of contexts whose function is
\* executing, innermost on top (with, between the return of a function and
\* the stopTracking() of its execute(), that context still on top); so the
\* context whose function is executing is the top whenever control is in its
\* body, also after a nested effect() or write() has returned, and the stack
\* is empty when no construction and no write is in progress.
C24_StackDiscipline ==
  (~Reactive /\ NoThrow(scenario)) =>
    /\ stack = IF Returning THEN Append(FnChain, Top(frames).ctx) ELSE FnChain
    /\ Running("fn") => stack # << >> /\ Top(stack) = Top(frames).ctx
    /\ Idle => stack = << >>

\* three nested effects: control is back in the body of the outermost one
\* after the nested constructions have returned, and it is the top of the stack
C24_Witness ==
  /\ scenario = "nested3" /\ Running("fn") /\ Top(frames).ctx = 1 /\ Len(frames) = 2
  /\ stack = << 1 >> /\ Len(contexts) = 3
  /\ \A c \in {2, 3} : obs[c].ctor = "returned"

----------------------------------------------------------------------------
(* C25 *)

\* the entries of a cleanups list that can be called: a function fn returned,
\* or the empty function that stands in for a nullish return value
Callable == {"cleanup", "thrower", "noop"}

\* C25: after a run of an effect of signal.js an entry is in the context's
\* cleanups only if it is callable: a value fn returned that is neither
\* nullish nor a function is not registered, so that every entry dispose()
\* invokes is callable.
C25_CleanupRegistration ==
  ~Reactive =>
    \A c \in DOMAIN contexts : Range(contexts[c].disposables) \subseteq Callable

\* the function of the first effect returned a number; a write re-ran the
\* effect, whose leading dispose() called the number: the TypeError has
\* reached the client and the number is still in the list
C25_Witness ==
  /\ scenario = "number" /\ Idle /\ threw /\ log # << >> /\ log[1].ev = "write"
  /\ \E i \in DOMAIN log : log[i].ev = "value" /\ log[i].ctx = 1
  /\ contexts[1].disposables = << "value" >> /\ Count("run", 1) = 0

----------------------------------------------------------------------------
(* C26 *)

\* the events of invoking an entry of a cleanups list
Cleanups == {"cleanup", "thrower", "value"}

\* the dispose() calls that are past their first / their second step
PastDependencies ==
  {i \in DOMAIN frames : /\ frames[i].kind = "dispose"
                          /\ frames[i].phase \in {"subscriptions", "disposables"}}
PastSubscriptions ==
  {i \in DOMAIN frames : frames[i].kind = "dispose" /\ frames[i].phase = "disposables"}

\* a cleanup of a parent is followed by a cleanup of one of its children only
\* after the parent's dispose() has returned
ChildCleanupFirst ==
  \A i \in DOMAIN log : \A j \in DOMAIN log :
    ( /\ i < j /\ log[i].ev \in Cleanups /\ log[j].ev \in Cleanups
      /\ obs[log[j].ctx].creator = log[i].ctx ) =>
      \E m \in i..j : log[m].ev = "disposed" /\ log[m].ctx = log[i].ctx

\* C26: within one dispose() of signal.js the context is first removed from
\* every subscriber Set, then every child is disposed, and only then are the
\* context's own cleanups invoked: a dispose() past its first step has a
\* context that is in no Set and has no dependencies, one past its second
\* step has an emptied children list, a cleanup is invoked only by a
\* dispose() of its context that is past both, and a child's cleanup comes
\* before its parent's in the same disposal.
C26_DisposeStepOrder ==
  /\ [](~Reactive =>
          /\ \A i \in PastDependencies :
                Members(frames[i].ctx) = {} /\ contexts[frames[i].ctx].dependencies = << >>
          /\ \A i \in PastSubscriptions : contexts[frames[i].ctx].subscriptions = << >>
          /\ ChildCleanupFirst)
  /\ [][(~Reactive /\ Len(log') = Len(log) + 1 /\ Top(log').ev \in Cleanups) =>
          /\ Len(frames) \in PastSubscriptions
          /\ Top(frames).ctx = Top(log').ctx]_vars

\* a write to a disposed the outer effect: the inner effect's cleanup was
\* invoked, then the outer effect's own
C26_Witness ==
  /\ scenario = "nested" /\ Built /\ Idle /\ ~threw /\ Len(log) >= 6
  /\ log[1].ev = "write" /\ log[1].cell = 1
  /\ log[2].ev = "dispose" /\ log[2].ctx = 1
  /\ log[3].ev = "dispose" /\ log[3].ctx = 2
  /\ log[4].ev = "cleanup" /\ log[4].ctx = 2
  /\ log[5].ev = "disposed" /\ log[5].ctx = 2
  /\ log[6].ev = "cleanup" /\ log[6].ctx = 1

----------------------------------------------------------------------------
(* C27 *)

\* C27: when the function passed to effect() or computed() of reactive.js
\* throws during its tracked run, the tracklist is as deep after the call as
\* before it: between client calls it is empty, so that a getter called
\* outside any computation records its ref nowhere.
C27_TrackingUnwound ==
  (Reactive /\ Idle) => tracklist = << >>

\* the function of an effect threw during a setter call; the Set pushed for
\* its run is still on the tracklist and has recorded the ref the client read
\* afterwards, outside any computation
C27_Witness ==
  /\ scenario = "rthrower" /\ Idle /\ failed /\ ~threw
  /\ log # << >> /\ log[1].ev = "read" /\ log[1].ctx = 0 /\ log[1].cell = 2
  /\ Len(tracklist) = 1 /\ 2 \in tracklist[1]
  /\ reactives[1].deps = {}

----------------------------------------------------------------------------
(* C28 *)

\* execute() of a context that was disposed and not run since is under way:
\* its leading dispose() found the context already disposed
Resurrecting ==
  \E i \in DOMAIN frames :
    /\ i > 1 /\ frames[i].kind = "dispose" /\ frames[i].mark = 1
    /\ frames[i - 1].kind = "execute" /\ frames[i - 1].ctx = frames[i].ctx
    /\ frames[i - 1].from = "write"

\* the inner contexts of the outer effect that are in some subscriber Set
LiveInner(o) == {i \in Inner(o) : Members(i) # {}}

\* C28: a context of signal.js that was disposed by the re-run of its parent
\* during the fan-out of a write is not executed afterwards by that fan-out;
\* so when an outer effect and the inner effect it creates read the same
\* cell, after every write exactly one inner context is subscribed to the
\* cell and the inner function has run once per run of the outer function.
C28_NoResurrection ==
  ~Reactive =>
    /\ ~Resurrecting
    /\ (scenario = "nestedA" /\ Built /\ Idle) =>
         /\ Cardinality(LiveInner(1)) = 1
         /\ CountAll("run", Inner(1)) = Count("run", 1)

\* outer and inner effect read a; after two writes to a three inner contexts
\* are subscribed to a, and the second write called the inner function three
\* times for one run of the outer function
C28_Witness ==
  /\ scenario = "nestedA" /\ Built /\ Idle /\ writes = 2
  /\ Cardinality(LiveInner(1)) = 3 /\ Len(subscriptions[1]) = 4
  /\ Count("run", 1) = 1 /\ CountAll("run", Inner(1)) = 3

----------------------------------------------------------------------------
(* C29 *)

\* C29: in every reachable state of a signal.js program the children list of
\* a context holds each child at most once, also after writes that re-ran an
\* inner effect without re-running its parent.
C29_ChildrenNoDuplicates ==
  ~Reactive =>
    \A c \in DOMAIN contexts :
      Cardinality(Range(contexts[c].subscriptions)) = Len(contexts[c].subscriptions)

\* two writes to b have each re-run the inner effect alone; the outer
\* context, which ran once, lists its one child three times
C29_Witness ==
  /\ scenario = "nested" /\ Built /\ Idle /\ writes = 2
  /\ obs[1].runs = 1 /\ obs[2].runs = 3 /\ Inner(1) = {2}
  /\ contexts[1].subscriptions = << 2, 2, 2 >>

----------------------------------------------------------------------------
(* C30 *)

\* the cells whose subscriber Set the dependencies list of the context holds
BackLinks(c) == Range(contexts[c].dependencies)

\* C30: in every reachable state of a signal.js program, a context that is a
\* member of the subscriber Set of a cell holds that Set in its dependencies
\* list; hence in the step in which dispose() of a context returns, the
\* context is a member of no subscriber Set.
C30_BackLinkCompleteness ==
  /\ [](~Reactive => \A c \in DOMAIN contexts : Members(c) \subseteq BackLinks(c))
  /\ [][(~Reactive /\ Len(log') = Len(log) + 1 /\ Top(log').ev = "disposed") =>
          \A k \in DOMAIN subscriptions' : ~SetHas(subscriptions'[k], Top(log').ctx)]_vars

\* an effect that reads two cells was re-run by a write: the dispose() that
\* began the run has returned and the context is again a member of both
\* subscriber Sets, with both in its dependencies list
C30_Witness ==
  /\ ~Reactive /\ Built /\ Idle /\ ~threw
  /\ \E c \in DOMAIN contexts :
       /\ obs[c].runs = 2 /\ Members(c) = {1, 2}
       /\ contexts[c].dependencies = << 1, 2 >>
       /\ \E i \in DOMAIN log : log[i].ev = "disposed" /\ log[i].ctx = c

----------------------------------------------------------------------------
(* C31 *)

\* The program: cells a (1) and b (2); effects S0 (context 1, reads a), S1
\* (context 2, reads a and b) and S2 (context 3, reads a), created in this
\* order.  A client call of write() has returned normally.
SharedAfter(k) ==
  /\ scenario = "shared" /\ Built /\ Idle /\ ~threw
  /\ log # << >> /\ log[1].ev = "write" /\ log[1].ctx = 0 /\ log[1].cell = k

\* the position of context c in the sequence s
Position(s, c) == CHOOSE i \in DOMAIN s : s[i] = c

Before(s, c, d) ==
  /\ SetHas(s, c) /\ SetHas(s, d) /\ Position(s, c) < Position(s, d)

\* the step is a client call of write() on cell k that changes its value
ClientChanges(k) ==
  /\ Idle /\ writes' = writes + 1
  /\ log' # << >> /\ log'[1].ev = "write" /\ log'[1].ctx = 0 /\ log'[1].cell = k

\* C31: the fan-out of a write of signal.js follows the order of the most
\* recent subscriptions, not the order of creation.  With effects S1 and S2
\* created in this order, both reading a and S1 also reading b: a
\* value-changing write to a made when no write has re-run an effect runs S1
\* before S2; after a value-changing write to b, which re-runs S1 alone, S1
\* is behind S2 in the subscriber Set of a, and a value-changing write to a
\* made then runs S2 before S1.
C31_FanoutFollowsResubscription ==
  /\ [][(scenario = "shared" /\ Built /\ writes = 0 /\ ClientChanges(1)) =>
          Before(log'[1].snap, 2, 3)]_vars
  /\ [](SharedAfter(2) =>
          /\ DirectRuns(Len(log)) = << 2 >>
          /\ \A c \in {1, 3} : Count("run", c) = 0
          /\ Before(subscriptions[1], 3, 2))
  /\ [][(SharedAfter(2) /\ ClientChanges(1)) => Before(log'[1].snap, 3, 2)]_vars
  /\ [](SharedAfter(1) =>
          /\ DirectRuns(Len(log)) = log[1].snap
          /\ Before(log[1].snap, 3, 2) => Before(DirectRuns(Len(log)), 3, 2)
          /\ Before(log[1].snap, 2, 3) => Before(DirectRuns(Len(log)), 2, 3))

\* after a write to b, a write to a has returned: it ran S0, S2, S1 in this
\* order, each once
C31_Witness ==
  /\ SharedAfter(1) /\ writes = 2
  /\ log[1].snap = << 1, 3, 2 >>
  /\ DirectRuns(Len(log)) = << 1, 3, 2 >>
  /\ obs[2].runs = 3 /\ obs[3].runs = 2
  /\ subscriptions[2] = << 2 >>

----------------------------------------------------------------------------
(* C32 *)

\* the exception thrown in a call of fn is leaving execute() of the context
FailedExit == ExecuteThrows /\ Top(frames).phase = "push"

\* the contexts whose last call of fn threw, that were not disposed since and
\* of which no execute() is under way
FailedContexts ==
  {c \in DOMAIN contexts :
     /\ obs[c].aborted /\ ~obs[c].disposed
     /\ \A i \in DOMAIN frames : ~(frames[i].kind = "execute" /\ frames[i].ctx = c)}

\* A run of fn that threw leaves the context subscribed to exactly the cells
\* the run read before the throw, and with no cleanup registered.
FailedRunState ==
  /\ FailedExit =>
       /\ Members(Top(frames).ctx) = Top(frames).seen
       /\ contexts[Top(frames).ctx].disposables = << >>
  /\ \A c \in FailedContexts :
       /\ Members(c) = obs[c].reads
       /\ contexts[c].disposables = << >>

\* a value-changing client call of write() has returned, with or without an
\* exception
ClientWriteReturned ==
  /\ Idle /\ log # << >> /\ log[1].ev = "write" /\ log[1].ctx = 0

\* the subscriber whose exception ended the write comes before context c in
\* the write's copy of the subscriber Set
ThrowerBefore(c) ==
  /\ threw /\ DirectRuns(Len(log)) # << >>
  /\ Before(log[1].snap, Top(DirectRuns(Len(log))), c)

====
